---- MODULE Spec2Model ----
(***************************************************************************)
(* Model of the code-complexity-calculator engine:                         *)
(*   - LanguageRegistry          (lib/analyzer/languages/registry.js)      *)
(*   - LanguageDetector          (lib/analyzer/detectors/languageDetector) *)
(*   - ComplexityAnalyzer        (lib/analyzer/index.js): analyzeFile,     *)
(*     analyzeFiles, chunkArray, updateAggregatedStats,                    *)
(*     finalizeAggregatedStats                                             *)
(*   - ComplexityAnalyzer (TS)   (src/analyzer/index.ts): analyzeFile      *)
(***************************************************************************)
EXTENDS Integers, Sequences, FiniteSets, TLC

VARIABLES
    registry,     \* LanguageRegistry: analyzers / extensions / aliases / initialized
    live,         \* history: registrations still in force (id -> entry as registered)
    removed,      \* history: ids unregistered and not registered since (id -> keys)
    lastLookup,   \* value returned by the latest registry lookup
    phase,        \* position of the caller: idle, running, returned, tsSettled
    filePaths,    \* argument of analyzeFiles
    chunks,       \* chunkArray(filePaths, concurrency)
    chunkIdx,     \* index of the wave being awaited (1-based)
    calls,        \* one analyzeFile call per input position: pc, steps done, outcome
    results,      \* the report under construction / returned by analyzeFiles
    tsCall,       \* outcome of the TypeScript analyzeFile call
    call,         \* the calculator, detector or parser call made on its own (or null)
    ret           \* what that call returned

vars == <<registry, live, removed, lastLookup, phase, filePaths, chunks, chunkIdx,
          calls, results, tsCall, call, ret>>

registryVars == <<registry, live, removed, lastLookup>>
batchVars == <<phase, filePaths, chunks, chunkIdx, calls, results, tsCall>>
pureVars == <<call, ret>>

(***************************************************************************)
(* Bounds of the model                                                     *)
(***************************************************************************)
\* longest batch whose paths are drawn freely from the file system
MaxFiles == 3
\* longest batch of the alternating pattern (more than one wave of 10)
MaxBatch == 12
\* longest freely drawn batch that is followed to its return
MaxLiveFiles == 2
\* longest text given to a calculator token by token
MaxText == 3
\* most else-if branches in an if chain
MaxChain == 3
\* most syntax nodes handed to the node visitor
MaxNodes == 2
\* largest small line count and complexity given to the maintainability index
MaxLines == 6
MaxComplexity == 6

(***************************************************************************)
(* Generic helpers                                                         *)
(***************************************************************************)
Min(a, b) == IF a < b THEN a ELSE b
Max(a, b) == IF a > b THEN a ELSE b

\* JavaScript Map.set / Map.delete on a map kept as a function
MapSet(m, k, v) == [x \in (DOMAIN m) \cup {k} |-> IF x = k THEN v ELSE m[x]]
MapDelete(m, k) == [x \in (DOMAIN m) \ {k} |-> m[x]]
EmptyMap == [x \in {} |-> x]

\* String.prototype.toLowerCase over the strings the model uses
toLowerCase(s) ==
    CASE s = "FOO"   -> "foo"
      [] s = "F"     -> "f"
      [] s = ".X"    -> ".x"
      [] s = ".JAVA" -> ".java"
      [] s = ".JS"   -> ".js"
      [] s = "JavaScript" -> "javascript"
      [] s = "DEF"   -> "def"
      [] OTHER       -> s

\* JavaScript null and undefined (lookup misses, unset references)
Null == [null |-> TRUE]
Undefined == [undefined |-> TRUE]
\* truthiness of a value that is an object, null or undefined
Truthy(v) == v # Null /\ v # Undefined

(***************************************************************************)
(* LanguageRegistry                                                        *)
(***************************************************************************)
\* analyzer classes handed to register(): what typeof gives and which
\* methods the prototype carries
ScannerA == [id |-> "ScannerA", typeof |-> "function",
             methods |-> {"analyze", "calculateComplexity", "parse"}]
ScannerB == [id |-> "ScannerB", typeof |-> "function",
             methods |-> {"analyze", "calculateComplexity"}]
NoAnalyze == [id |-> "NoAnalyze", typeof |-> "function",
              methods |-> {"calculateComplexity", "parse"}]
\* the class JavaScriptAnalyzer of lib/analyzer/languages/javascript.js, with
\* the methods of the BaseAnalyzer interface
JavaScriptAnalyzer ==
    [id |-> "JavaScriptAnalyzer", typeof |-> "function",
     methods |-> {"parse", "extractFunctions", "extractClasses",
                  "calculateCyclomaticComplexity", "calculateCognitiveComplexity"}]
\* lib/analyzer/languages/javascript.js exports the object { JavaScriptAnalyzer }
JavaScriptModule == [id |-> "JavaScriptModule", typeof |-> "object", methods |-> {}]

\* constructor
NewRegistry == [analyzers |-> EmptyMap, extensions |-> EmptyMap,
                aliases |-> EmptyMap, initialized |-> FALSE]

isValidAnalyzer(AnalyzerClass) ==
    /\ AnalyzerClass.typeof = "function"
    /\ \A method \in {"analyze", "calculateComplexity"} : method \in AnalyzerClass.methods

\* register(name, AnalyzerClass, options): the registry afterwards and
\* whether the call threw. options.extensions / options.aliases are the
\* lists given by the caller (kept as sets: only membership is used).
register(reg, name, AnalyzerClass, options) ==
    LET normalizedName == toLowerCase(name)
        exts == {toLowerCase(e) : e \in options.extensions}
        als  == {toLowerCase(a) : a \in options.aliases}
    IN  IF ~isValidAnalyzer(AnalyzerClass)
        THEN [reg |-> reg, threw |-> TRUE]
        ELSE [reg |->
                [reg EXCEPT
                    !.analyzers = MapSet(@, normalizedName,
                        [name |-> normalizedName, class |-> AnalyzerClass,
                         extensions |-> options.extensions,
                         aliases |-> options.aliases]),
                    !.extensions = [x \in (DOMAIN @) \cup exts |->
                                        IF x \in exts THEN normalizedName ELSE @[x]],
                    !.aliases = [x \in (DOMAIN @) \cup als |->
                                        IF x \in als THEN normalizedName ELSE @[x]]],
              threw |-> FALSE]

\* what require() yields for each built-in module: the exported value, or
\* a throw when the module is absent or fails to load
BuiltIns ==
    << [name |-> "javascript", loads |-> TRUE, class |-> JavaScriptModule,
        options |-> [extensions |-> {".js", ".jsx", ".ts", ".tsx", ".mjs", ".cjs"},
                     aliases |-> {"js", "ts", "typescript", "node", "react"}]],
       [name |-> "python", loads |-> FALSE, class |-> JavaScriptModule,
        options |-> [extensions |-> {".py", ".pyw", ".pyi"},
                     aliases |-> {"py", "python3"}]],
       [name |-> "java", loads |-> FALSE, class |-> JavaScriptModule,
        options |-> [extensions |-> {".java"}, aliases |-> {"java"}]],
       [name |-> "cpp", loads |-> FALSE, class |-> JavaScriptModule,
        options |-> [extensions |-> {".cpp", ".cc", ".cxx", ".c++", ".C", ".hpp",
                                     ".hh", ".hxx", ".h++", ".H"},
                     aliases |-> {"c++", "cxx", "cplusplus"}]] >>

\* the try block of registerBuiltInAnalyzers from its k-th statement pair:
\* the first require or register that throws ends the block
RECURSIVE registerBuiltInsFrom(_, _)
registerBuiltInsFrom(reg, k) ==
    IF k > Len(BuiltIns) THEN reg
    ELSE LET b == BuiltIns[k]
             r == register(reg, b.name, b.class, b.options)
         IN  IF ~b.loads \/ r.threw THEN reg
             ELSE registerBuiltInsFrom(r.reg, k + 1)

registerBuiltInAnalyzers(reg) == registerBuiltInsFrom(reg, 1)

initialize(reg) ==
    IF reg.initialized THEN reg
    ELSE [registerBuiltInAnalyzers(reg) EXCEPT !.initialized = TRUE]

\* getAnalyzer(language): the registry afterwards (lazy initialize) and the
\* value returned
getAnalyzer(reg, language) ==
    LET r == initialize(reg)
        normalizedLanguage == toLowerCase(language)
    IN  [reg |-> r,
         value |->
            IF normalizedLanguage \in DOMAIN r.analyzers
            THEN r.analyzers[normalizedLanguage]
            ELSE IF normalizedLanguage \in DOMAIN r.aliases
                 THEN LET actualLanguage == r.aliases[normalizedLanguage]
                      IN  IF actualLanguage \in DOMAIN r.analyzers
                          THEN r.analyzers[actualLanguage] ELSE Undefined
                 ELSE Null]

getAnalyzerByExtension(reg, extension) ==
    LET r == initialize(reg)
        normalizedExt == toLowerCase(extension)
    IN  [reg |-> r,
         value |->
            IF normalizedExt \in DOMAIN r.extensions
            THEN LET language == r.extensions[normalizedExt]
                 IN  IF language \in DOMAIN r.analyzers
                     THEN r.analyzers[language] ELSE Undefined
            ELSE Null]

isLanguageSupported(reg, language) == getAnalyzer(reg, language).value # Null
isExtensionSupported(reg, extension) == getAnalyzerByExtension(reg, extension).value # Null

\* variant: the entry stays in the id table
unregister_keepEntry(reg, language) ==
    LET normalizedLanguage == toLowerCase(language)
    IN  IF normalizedLanguage \notin DOMAIN reg.analyzers
        THEN [reg |-> reg, value |-> FALSE]
        ELSE LET analyzer == reg.analyzers[normalizedLanguage]
                 exts == {toLowerCase(e) : e \in analyzer.extensions}
                 als  == {toLowerCase(a) : a \in analyzer.aliases}
             IN  [reg |-> [reg EXCEPT
                              !.extensions = [x \in (DOMAIN @) \ exts |-> @[x]],
                              !.aliases = [x \in (DOMAIN @) \ als |-> @[x]]],
                  value |-> TRUE]

\* unregister(language): registry afterwards and the boolean returned
unregister(reg, language) ==
    LET normalizedLanguage == toLowerCase(language)
    IN  IF normalizedLanguage \notin DOMAIN reg.analyzers
        THEN [reg |-> reg, value |-> FALSE]
        ELSE LET analyzer == reg.analyzers[normalizedLanguage]
                 exts == {toLowerCase(e) : e \in analyzer.extensions}
                 als  == {toLowerCase(a) : a \in analyzer.aliases}
             IN  [reg |-> [reg EXCEPT
                              !.analyzers = MapDelete(@, normalizedLanguage),
                              !.extensions = [x \in (DOMAIN @) \ exts |-> @[x]],
                              !.aliases = [x \in (DOMAIN @) \ als |-> @[x]]],
                  value |-> TRUE]

clear(reg) == NewRegistry

(***************************************************************************)
(* File system and file contents seen by the analyzer                      *)
(***************************************************************************)
\* options.maxFileSize = 1024 * 1024
maxFileSize == 1048576

\* File contents are kept as what the pipeline reads off them: whether the
\* text is empty, the interpreter named on a leading "#!" line ("" when the
\* first line is no shebang), the keyword hits per language, the line
\* count, whether the scanner raises on it, and the scores and entities the
\* scanner and calculators produce for it.
NoFunctions == << >>
Content(lines, scan, cyclomatic, cognitive, functions, classes) ==
    [empty |-> FALSE, shebang |-> "", keywords |-> EmptyMap, lines |-> lines,
     scan |-> scan, cyclomatic |-> cyclomatic, cognitive |-> cognitive,
     functions |-> functions, classes |-> classes]

Paths == {"gone.js", "big.js", "notes.txt", "tool.py", "bad.js", "a.js", "B.JAVA"}

\* fs.stat / fs.readFile / path.extname / mime.lookup for each path
FileSystem(path) ==
    CASE path = "gone.js" ->
            [exists |-> FALSE, size |-> 0, ext |-> ".js", mime |-> "application/javascript",
             content |-> Content(0, "ok", 1, 0, NoFunctions, NoFunctions)]
      [] path = "big.js" ->
            [exists |-> TRUE, size |-> 1048577, ext |-> ".js", mime |-> "application/javascript",
             content |-> Content(9, "ok", 9, 9, NoFunctions, NoFunctions)]
      [] path = "notes.txt" ->
            [exists |-> TRUE, size |-> 12, ext |-> ".txt", mime |-> "text/plain",
             content |-> Content(2, "ok", 1, 0, NoFunctions, NoFunctions)]
      [] path = "tool.py" ->
            [exists |-> TRUE, size |-> 40, ext |-> ".py", mime |-> "text/x-python",
             content |-> Content(4, "ok", 2, 1, NoFunctions, NoFunctions)]
      [] path = "bad.js" ->
            [exists |-> TRUE, size |-> 30, ext |-> ".js", mime |-> "application/javascript",
             content |-> Content(3, "raises", 7, 7, NoFunctions, NoFunctions)]
      [] path = "a.js" ->
            [exists |-> TRUE, size |-> 1048576, ext |-> ".js", mime |-> "application/javascript",
             content |-> Content(10, "ok", 3, 2,
                            << [name |-> "f", cyclomatic |-> 2],
                               [name |-> "g", cyclomatic |-> 2] >>,
                            << [name |-> "K", cyclomatic |-> 3] >>)]
      [] path = "B.JAVA" ->
            [exists |-> TRUE, size |-> 200, ext |-> ".JAVA", mime |-> "text/x-java-source",
             content |-> Content(20, "ok", 5, 0,
                            << [name |-> "main", cyclomatic |-> 2],
                               [name |-> "run", cyclomatic |-> 4] >>,
                            NoFunctions)]

(***************************************************************************)
(* LanguageDetector                                                        *)
(***************************************************************************)
\* config/languages.json, in the order of Object.entries
Languages ==
    << [name |-> "javascript", extensions |-> {".js", ".jsx"},
        mime |-> {"application/javascript"}, shebang |-> "node"],
       [name |-> "python", extensions |-> {".py"},
        mime |-> {"text/x-python"}, shebang |-> "python"],
       [name |-> "java", extensions |-> {".java"},
        mime |-> {"text/x-java-source"}, shebang |-> ""] >>

\* null where a language name is expected (falsy, like "")
NoLanguage == ""

\* the entries of Languages that satisfy a test, as a set of names
LanguageNames == {Languages[k].name : k \in 1..Len(Languages)}
LanguageNamed(name) == Languages[CHOOSE k \in 1..Len(Languages) : Languages[k].name = name]

\* first entry of Languages (in order, from the k-th) whose name is in
\* matching, or null
RECURSIVE FirstLanguage(_, _)
FirstLanguage(matching, k) ==
    IF k > Len(Languages) THEN NoLanguage
    ELSE IF Languages[k].name \in matching THEN Languages[k].name
    ELSE FirstLanguage(matching, k + 1)

detectByExtension(file) ==
    LET ext == toLowerCase(file.ext)
        matching == {n \in LanguageNames : ext \in LanguageNamed(n).extensions}
    IN  FirstLanguage(matching, 1)

detectByMimeType(file) ==
    LET matching == {n \in LanguageNames : file.mime \in LanguageNamed(n).mime}
    IN  IF file.mime = "" THEN NoLanguage ELSE FirstLanguage(matching, 1)

detectByContent(content) ==
    LET shebang == {n \in LanguageNames :
                        /\ LanguageNamed(n).shebang # ""
                        /\ LanguageNamed(n).shebang = content.shebang}
        byShebang == IF content.shebang # "" THEN FirstLanguage(shebang, 1) ELSE NoLanguage
        score(l) == IF l.name \in DOMAIN content.keywords
                    THEN content.keywords[l.name] ELSE 0
        maxScore == CHOOSE m \in {score(Languages[k]) : k \in 1..Len(Languages)} :
                        \A k \in 1..Len(Languages) : score(Languages[k]) <= m
        best == {n \in LanguageNames : score(LanguageNamed(n)) = maxScore}
    IN  IF byShebang # NoLanguage THEN byShebang
        ELSE IF maxScore > 0 THEN FirstLanguage(best, 1)
        ELSE NoLanguage

detectLanguage(file, content) ==
    LET langByExt == detectByExtension(file)
        langByMime == detectByMimeType(file)
    IN  IF langByExt # NoLanguage THEN langByExt
        ELSE IF langByMime # NoLanguage THEN langByMime
        ELSE IF ~content.empty /\ detectByContent(content) # NoLanguage
             THEN detectByContent(content)
        ELSE NoLanguage

(***************************************************************************)
(* ComplexityAnalyzer.analyzeFile (lib/analyzer/index.js)                  *)
(***************************************************************************)
Throw(message) == [threw |-> TRUE, message |-> message]
NoThrow == [threw |-> FALSE, message |-> ""]

\* a settled promise
Resolved(value) == [state |-> "resolved", value |-> value]
Rejected(message) == [state |-> "rejected", value |-> [message |-> message]]
Pending == [state |-> "pending", value |-> Null]

\* variant: the error is thrown again instead of being turned into a result
catchError_rethrow(filePath, error) == Rejected(error.message)

\* the catch block of analyzeFile
catchError(filePath, error) == Resolved([file |-> filePath, error |-> error.message])

\* if (result.error): a result has an error field with a non-empty message
hasError(result) == "error" \in DOMAIN result /\ result.error # ""

\* variant: the cap is compared one byte too high
exceedsMaxFileSize_offByOne(stats) == stats.size > maxFileSize + 1

\* stats.size > this.options.maxFileSize
exceedsMaxFileSize(stats) == stats.size > maxFileSize

\* fs.stat and the size check: what the first segment of the try block throws
statAndCheckSize(filePath) ==
    LET stats == FileSystem(filePath)
    IN  IF ~stats.exists THEN Throw("ENOENT: no such file or directory")
        ELSE IF exceedsMaxFileSize(stats) THEN Throw("File too large")
        ELSE NoThrow

\* the calculators of lib/analyzer/complexity: a score object with a total
cyclomaticCalculate(content) == [total |-> content.cyclomatic]
cognitiveCalculate(content) == [total |-> content.cognitive]

\* the results object built from a parsed file (lines 62-109)
buildResults(filePath, language, stats, content) ==
    [file |-> filePath, language |-> language, size |-> stats.size,
     lines |-> content.lines,
     complexity |-> [cyclomatic |-> cyclomaticCalculate(content),
                     cognitive |-> cognitiveCalculate(content)],
     functions |-> [k \in 1..Len(content.functions) |->
                        [name |-> content.functions[k].name,
                         complexity |-> [cyclomatic |-> content.functions[k].cyclomatic]]],
     classes |-> [k \in 1..Len(content.classes) |->
                        [name |-> content.classes[k].name,
                         complexity |-> [cyclomatic |-> content.classes[k].cyclomatic]]]]

\* variant: a language without scanner falls back to the JavaScript scanner
lookupAnalyzer_fallback(reg, language) ==
    LET r == getAnalyzer(reg, language)
    IN  IF Truthy(r.value) THEN r ELSE getAnalyzer(r.reg, "javascript")

\* the scanner lookup of analyzeFile
lookupAnalyzer(reg, language) == getAnalyzer(reg, language)

\* the rest of the try block once the content has been read: detection,
\* registry lookup, scan and scoring. Gives the registry afterwards, the
\* steps performed, the scanner that scanned and the settled promise.
analyzeContent(reg, filePath) ==
    LET stats == FileSystem(filePath)
        content == stats.content
        language == detectLanguage(stats, content)
        found == lookupAnalyzer(reg, language)
        analyzer == found.value
    IN  IF language = NoLanguage
        THEN [reg |-> reg, steps |-> <<"detect">>, scanner |-> "",
              promise |-> catchError(filePath, Throw("Unsupported file type"))]
        ELSE IF ~Truthy(analyzer)
        THEN [reg |-> found.reg, steps |-> <<"detect", "lookup">>, scanner |-> "",
              promise |-> catchError(filePath, Throw("No analyzer found for language"))]
        ELSE IF content.scan = "raises"
        THEN [reg |-> found.reg, steps |-> <<"detect", "lookup", "parse">>,
              scanner |-> analyzer.class.id,
              promise |-> catchError(filePath, Throw("JavaScript parse error"))]
        ELSE [reg |-> found.reg, steps |-> <<"detect", "lookup", "parse", "score">>,
              scanner |-> analyzer.class.id,
              promise |-> Resolved(buildResults(filePath, language, stats, content))]

\* a call of analyzeFile that has run up to its first await (fs.stat)
startCall(filePath) ==
    [file |-> filePath, pc |-> "stat", steps |-> <<"stat">>, scanner |-> "",
     promise |-> Pending]

(***************************************************************************)
(* ComplexityAnalyzer.analyzeFiles and its aggregation helpers              *)
(***************************************************************************)
\* Infinity, the initial running minimum: above every score of the model
Infinity == 1000000000

RECURSIVE Gcd(_, _)
Gcd(a, b) == IF b = 0 THEN a ELSE Gcd(b, a % b)
\* the number a / b (b > 0), kept exactly as a fraction in lowest terms
Quotient(a, b) == LET g == Gcd(a, b) IN IF g = 0 THEN <<0, 1>> ELSE <<a \div g, b \div g>>
\* the number 0 of an avg field
Zero == <<0, 1>>

\* the concurrency limit written in analyzeFiles
maxConcurrency == 10

\* variant: the whole batch is one wave
concurrencyOf_uncapped(paths) == Len(paths)

\* Math.min(10, filePaths.length)
concurrencyOf(paths) == Min(maxConcurrency, Len(paths))

\* chunkArray: for (i = 0; i < array.length; i += size) push(slice(i, i + size))
RECURSIVE chunkFrom(_, _, _)
\* variant: a last slice shorter than size is left out
chunkFrom_dropShort(array, size, i) ==
    IF i + size - 1 > Len(array) THEN << >>
    ELSE << SubSeq(array, i, i + size - 1) >> \o chunkFrom(array, size, i + size)

chunkFrom(array, size, i) ==
    IF i > Len(array) THEN << >>
    ELSE << SubSeq(array, i, Min(i + size - 1, Len(array))) >>
            \o chunkFrom(array, size, i + size)
chunkArray(array, size) == chunkFrom(array, size, 1)

\* the results object analyzeFiles starts from (lines 125-152)
newResults(paths) ==
    [summary |-> [totalFiles |-> Len(paths), analyzedFiles |-> 0, errorFiles |-> 0,
                  languages |-> << >>, totalLines |-> 0, totalSize |-> 0],
     files |-> << >>,
     aggregated |->
        [complexity |-> [cyclomatic |-> [min |-> Infinity, max |-> 0, avg |-> Zero, total |-> 0],
                         cognitive  |-> [min |-> Infinity, max |-> 0, avg |-> Zero, total |-> 0]],
         functions |-> [total |-> 0, mostComplex |-> Null, averageComplexity |-> 0],
         classes   |-> [total |-> 0, mostComplex |-> Null, averageComplexity |-> 0]]]

\* variant: the total is overwritten instead of accumulated
updateMetric_overwriteTotal(stat, total) ==
    [stat EXCEPT !.min = Min(@, total), !.max = Max(@, total), !.total = total]

\* variant: the maximum is the score of the latest file
updateMetric_lastMax(stat, total) ==
    [stat EXCEPT !.min = Min(@, total), !.max = total, !.total = @ + total]

\* running min / max / total of one metric
updateMetric(stat, total) ==
    [stat EXCEPT !.min = Min(@, total), !.max = Max(@, total), !.total = @ + total]

updateAggregatedStats(aggregated, result) ==
    [aggregated EXCEPT
        !.complexity.cyclomatic = updateMetric(@, result.complexity.cyclomatic.total),
        !.complexity.cognitive  = updateMetric(@, result.complexity.cognitive.total),
        !.functions.total = @ + Len(result.functions),
        !.classes.total   = @ + Len(result.classes)]

\* variant: the unset minimum is left as it is
finalizeAggregatedStats_noGuard(aggregated, totalFiles) ==
    IF totalFiles > 0
    THEN [aggregated EXCEPT
            !.complexity.cyclomatic.avg =
                Quotient(aggregated.complexity.cyclomatic.total, totalFiles),
            !.complexity.cognitive.avg =
                Quotient(aggregated.complexity.cognitive.total, totalFiles)]
    ELSE aggregated

finalizeAggregatedStats(aggregated, totalFiles) ==
    LET withAvg ==
            IF totalFiles > 0
            THEN [aggregated EXCEPT
                    !.complexity.cyclomatic.avg =
                        Quotient(aggregated.complexity.cyclomatic.total, totalFiles),
                    !.complexity.cognitive.avg =
                        Quotient(aggregated.complexity.cognitive.total, totalFiles)]
            ELSE aggregated
    IN  [withAvg EXCEPT
            !.complexity.cyclomatic.min = IF @ = Infinity THEN 0 ELSE @,
            !.complexity.cognitive.min  = IF @ = Infinity THEN 0 ELSE @]

\* Set.add on a set kept in insertion order
setAdd(s, x) == IF \E k \in 1..Len(s) : s[k] = x THEN s ELSE Append(s, x)

\* variant: a failed result is dropped from the report
foldResult_dropFailed(res, result) ==
    IF hasError(result)
    THEN res
    ELSE [res EXCEPT
            !.files = Append(@, result),
            !.summary.analyzedFiles = @ + 1,
            !.summary.languages = setAdd(@, result.language),
            !.summary.totalLines = @ + result.lines,
            !.summary.totalSize = @ + result.size,
            !.aggregated = updateAggregatedStats(@, result)]

\* one iteration of "for (const result of chunkResults)" (lines 163-178)
foldResult(res, result) ==
    LET pushed == [res EXCEPT !.files = Append(@, result)]
    IN  IF hasError(result)
        THEN [pushed EXCEPT !.summary.errorFiles = @ + 1]
        ELSE [pushed EXCEPT
                !.summary.analyzedFiles = @ + 1,
                !.summary.languages = setAdd(@, result.language),
                !.summary.totalLines = @ + result.lines,
                !.summary.totalSize = @ + result.size,
                !.aggregated = updateAggregatedStats(@, result)]

\* variant: every result is added to the report as it was before the
\* wave, so that only the last addition stays
foldChunk_lastWins(res, chunkResults, k) ==
    IF k > Len(chunkResults) THEN res
    ELSE foldResult(res, chunkResults[Len(chunkResults)])

\* the whole loop over the results of one wave, from its k-th result
RECURSIVE foldChunk(_, _, _)
foldChunk(res, chunkResults, k) ==
    IF k > Len(chunkResults) THEN res
    ELSE foldChunk(foldResult(res, chunkResults[k]), chunkResults, k + 1)

\* lines 181-187: finalize and return
finishResults(res) ==
    [res EXCEPT !.aggregated = finalizeAggregatedStats(@, res.summary.analyzedFiles)]

\* chunk.map(filePath => this.analyzeFile(filePath)): every call of the
\* wave runs up to its first await
startChunk(chunk) == [k \in 1..Len(chunk) |-> startCall(chunk[k])]

(***************************************************************************)
(* ComplexityAnalyzer.analyzeFile (src/analyzer/index.ts)                  *)
(***************************************************************************)
isJavaFile(file) == toLowerCase(file.ext) = ".java"

analyzeFileTs(filePath) ==
    LET file == FileSystem(filePath)
    IN  IF ~file.exists THEN Rejected("File not found")
        ELSE IF ~isJavaFile(file) THEN Rejected("Unsupported file type")
        ELSE Rejected("analyzer.extractClasses is not a function")

(***************************************************************************)
(* Inputs                                                                  *)
(***************************************************************************)
\* batches of up to MaxFiles paths drawn freely from the file system
ShortBatches == UNION {[1..n -> Paths] : n \in 0..MaxFiles}
\* longer batches alternating an analyzable and a missing file
LongBatches == {[k \in 1..n |-> IF k % 2 = 1 THEN "a.js" ELSE "gone.js"] : n \in 1..MaxBatch}
Batches == ShortBatches \cup LongBatches

\* the registry the analyzer works with: two scanners registered by the host
HostRegistry ==
    register(register(NewRegistry, "JavaScript", ScannerA,
                      [extensions |-> {".js"}, aliases |-> {"js"}]).reg,
             "java", ScannerB, [extensions |-> {".java"}, aliases |-> {}]).reg

(***************************************************************************)
(* Actions of the batch analysis                                           *)
(***************************************************************************)
Init ==
    /\ registry = HostRegistry
    /\ live = EmptyMap
    /\ removed = EmptyMap
    /\ lastLookup = Null
    /\ phase = "idle"
    /\ filePaths = << >>
    /\ chunks = << >>
    /\ chunkIdx = 0
    /\ calls = << >>
    /\ results = newResults(<< >>)
    /\ tsCall = [file |-> "", promise |-> Pending]
    /\ call = Null
    /\ ret = Null

\* analyzeFiles(paths) up to its first await, or to its return when there
\* is no wave to await
AnalyzeFiles(paths) ==
    /\ phase = "idle"
    /\ filePaths' = paths
    /\ chunks' = chunkArray(paths, concurrencyOf(paths))
    /\ IF Len(chunks') = 0
       THEN /\ phase' = "returned"
            /\ chunkIdx' = 0
            /\ calls' = << >>
            /\ results' = finishResults(newResults(paths))
       ELSE /\ phase' = "running"
            /\ chunkIdx' = 1
            /\ calls' = startChunk(chunks'[1])
            /\ results' = newResults(paths)
    /\ UNCHANGED <<pureVars, registry, live, removed, lastLookup, tsCall>>

\* fs.stat of call k completes; the size check follows
StatDone(k) ==
    /\ phase = "running"
    /\ k \in 1..Len(calls)
    /\ calls[k].pc = "stat"
    /\ \E thrown \in {statAndCheckSize(calls[k].file)} :
           calls' = [calls EXCEPT ![k] =
                IF thrown.threw
                THEN [@ EXCEPT !.pc = "settled",
                               !.promise = catchError(calls[k].file, thrown)]
                ELSE [@ EXCEPT !.pc = "read", !.steps = Append(@, "read")]]
    /\ UNCHANGED <<pureVars, registry, live, removed, lastLookup, phase, filePaths, chunks, chunkIdx,
                   results, tsCall>>

\* fs.readFile of call k completes; detection, lookup, scan and scoring follow
ReadDone(k) ==
    /\ phase = "running"
    /\ k \in 1..Len(calls)
    /\ calls[k].pc = "read"
    /\ \E done \in {analyzeContent(registry, calls[k].file)} :
           /\ calls' = [calls EXCEPT ![k] =
                    [@ EXCEPT !.pc = "settled",
                              !.steps = @ \o done.steps,
                              !.scanner = done.scanner,
                              !.promise = done.promise]]
           /\ registry' = done.reg
    /\ UNCHANGED <<pureVars, live, removed, lastLookup, phase, filePaths, chunks, chunkIdx, results, tsCall>>

\* Promise.all of the wave resolves: the fold over its results, then the
\* next wave is started, or the report is finalized and returned
WaveDone ==
    /\ phase = "running"
    /\ \A k \in 1..Len(calls) : calls[k].promise.state = "resolved"
    /\ LET chunkResults == [k \in 1..Len(calls) |-> calls[k].promise.value]
           folded == foldChunk(results, chunkResults, 1)
       IN  IF chunkIdx < Len(chunks)
           THEN /\ chunkIdx' = chunkIdx + 1
                /\ calls' = startChunk(chunks[chunkIdx + 1])
                /\ results' = folded
                /\ phase' = "running"
           ELSE /\ chunkIdx' = chunkIdx
                /\ calls' = << >>
                /\ results' = finishResults(folded)
                /\ phase' = "returned"
    /\ UNCHANGED <<pureVars, registry, live, removed, lastLookup, filePaths, chunks, tsCall>>

\* the TypeScript analyzeFile, called on its own
AnalyzeFileTs(filePath) ==
    /\ phase = "idle"
    /\ tsCall' = [file |-> filePath, promise |-> analyzeFileTs(filePath)]
    /\ phase' = "tsSettled"
    /\ UNCHANGED <<pureVars, registry, live, removed, lastLookup, filePaths, chunks, chunkIdx, calls, results>>

Next ==
    \/ \E paths \in Batches : AnalyzeFiles(paths)
    \/ \E k \in DOMAIN calls : StatDone(k)
    \/ \E k \in DOMAIN calls : ReadDone(k)
    \/ WaveDone
    \/ \E filePath \in Paths : AnalyzeFileTs(filePath)

Spec == Init /\ [][Next]_vars

\* the event loop completes every pending file operation and runs every
\* continuation that is ready
Steps ==
    \/ \E k \in DOMAIN calls : StatDone(k)
    \/ \E k \in DOMAIN calls : ReadDone(k)
    \/ WaveDone

\* the batches followed to their return: every kind of file next to
\* every other, and batches of more than one wave in which most files fail
LiveBatches ==
    UNION {[1..n -> Paths] : n \in 0..MaxLiveFiles}
    \cup {[k \in 1..n |-> IF k % 5 = 1 THEN "a.js" ELSE "gone.js"] :
                n \in (maxConcurrency + 1)..MaxBatch}

LiveNext ==
    \/ \E paths \in LiveBatches : AnalyzeFiles(paths)
    \/ Steps

LiveSpec == Init /\ [][LiveNext]_vars /\ WF_vars(Steps)

(***************************************************************************)
(* Actions of the registry, driven by a host that registers, unregisters,  *)
(* clears and looks up                                                     *)
(***************************************************************************)
RegistryNames == {"foo", "FOO", "bar"}
RegistryClasses == {ScannerA, ScannerB, NoAnalyze, JavaScriptModule, JavaScriptAnalyzer}
RegistryOptions ==
    { [extensions |-> {}, aliases |-> {}],
      [extensions |-> {".x"}, aliases |-> {"f"}],
      [extensions |-> {".X", ".y"}, aliases |-> {"b", "F"}] }
LookupNames == {"foo", "FOO", "bar", "f", "F", "b", "baz"}
LookupExtensions == {".x", ".X", ".y", ".z"}

RegistryInit ==
    /\ registry = NewRegistry
    /\ live = EmptyMap
    /\ removed = EmptyMap
    /\ lastLookup = Null
    /\ phase = "idle"
    /\ filePaths = << >>
    /\ chunks = << >>
    /\ chunkIdx = 0
    /\ calls = << >>
    /\ results = newResults(<< >>)
    /\ tsCall = [file |-> "", promise |-> Pending]
    /\ call = Null
    /\ ret = Null

\* the keys under which an entry was found when it was unregistered, and
\* those of them that a later registration of another id has taken over
removedKeys(entry) ==
    [names |-> {entry.name} \cup {toLowerCase(a) : a \in entry.aliases},
     extensions |-> {toLowerCase(e) : e \in entry.extensions},
     claimed |-> {}]
claimKeys(gone, entry) ==
    [id \in DOMAIN gone |->
        [gone[id] EXCEPT !.claimed = @ \cup removedKeys(entry).names
                                       \cup removedKeys(entry).extensions]]

Register(name, AnalyzerClass, options) ==
    LET r == register(registry, name, AnalyzerClass, options)
    IN  /\ registry' = r.reg
        /\ live' = IF r.threw THEN live
                   ELSE MapSet(live, toLowerCase(name), r.reg.analyzers[toLowerCase(name)])
        /\ removed' = IF r.threw THEN removed
                      ELSE claimKeys(MapDelete(removed, toLowerCase(name)),
                                     r.reg.analyzers[toLowerCase(name)])
        /\ lastLookup' = [threw |-> r.threw]
        /\ UNCHANGED <<pureVars, batchVars>>

Unregister(name) ==
    LET r == unregister(registry, name)
    IN  /\ registry' = r.reg
        /\ live' = IF r.value THEN MapDelete(live, toLowerCase(name)) ELSE live
        /\ removed' = IF r.value
                      THEN MapSet(removed, toLowerCase(name),
                                  removedKeys(registry.analyzers[toLowerCase(name)]))
                      ELSE removed
        /\ lastLookup' = [returned |-> r.value]
        /\ UNCHANGED <<pureVars, batchVars>>

Clear ==
    /\ registry' = clear(registry)
    /\ live' = EmptyMap
    /\ lastLookup' = Undefined
    /\ UNCHANGED <<pureVars, removed, batchVars>>

GetAnalyzer(language) ==
    LET r == getAnalyzer(registry, language)
    IN  /\ registry' = r.reg
        /\ lastLookup' = r.value
        /\ UNCHANGED <<pureVars, live, removed, phase, filePaths, chunks, chunkIdx, calls, results, tsCall>>

GetAnalyzerByExtension(extension) ==
    LET r == getAnalyzerByExtension(registry, extension)
    IN  /\ registry' = r.reg
        /\ lastLookup' = r.value
        /\ UNCHANGED <<pureVars, live, removed, phase, filePaths, chunks, chunkIdx, calls, results, tsCall>>

RegistryNext ==
    \/ \E name \in RegistryNames, AnalyzerClass \in RegistryClasses,
          options \in RegistryOptions : Register(name, AnalyzerClass, options)
    \/ \E name \in RegistryNames : Unregister(name)
    \/ Clear
    \/ \E language \in LookupNames : GetAnalyzer(language)
    \/ \E extension \in LookupExtensions : GetAnalyzerByExtension(extension)

SpecRegistry == RegistryInit /\ [][RegistryNext]_vars

(***************************************************************************)
(* What the inputs make of each file, read off the file system              *)
(***************************************************************************)
\* the file cannot be analyzed: missing, oversized, no language detected,
\* no scanner registered for its language, or the scanner raises on it
FailsAnalysis(path) ==
    LET f == FileSystem(path)
        language == detectLanguage(f, f.content)
    IN  \/ ~f.exists
        \/ f.size > maxFileSize
        \/ language = NoLanguage
        \/ ~Truthy(getAnalyzer(HostRegistry, language).value)
        \/ f.content.scan = "raises"

\* positions of the batch whose file is analyzed successfully
Successes == {i \in 1..Len(filePaths) : ~FailsAnalysis(filePaths[i])}
Failures == {i \in 1..Len(filePaths) : FailsAnalysis(filePaths[i])}

\* analyzeFile calls started and not yet settled
InFlight == {k \in DOMAIN calls : calls[k].pc \in {"stat", "read"}}

\* sum of f[i] over the positions i in S
RECURSIVE SumOver(_, _)
SumOver(S, f) ==
    IF S = {} THEN 0
    ELSE LET i == CHOOSE j \in S : TRUE IN f[i] + SumOver(S \ {i}, f)

Occurrences(seq, x) == Cardinality({i \in 1..Len(seq) : seq[i] = x})

(***************************************************************************)
(* Claims                                                                  *)
(***************************************************************************)

\* C1: during analyzeFiles over M paths the number of analyzeFile calls
\* started and not yet settled never exceeds min(10, M).
C1_ConcurrencyCeiling ==
    Cardinality(InFlight) <= Min(maxConcurrency, Len(filePaths))

\* a batch of more than 10 files with 10 analyses in flight at once
C1_Witness ==
    /\ Len(filePaths) > maxConcurrency
    /\ Cardinality(InFlight) = maxConcurrency

\* C2 as stated: no analyzeFile call, of either analyzer, ever rejects.
C2_NeverRejects ==
    /\ \A k \in DOMAIN calls : calls[k].promise.state # "rejected"
    /\ tsCall.promise.state # "rejected"

\* C2 amended: analyzeFile of lib/analyzer/index.js never rejects, and
\* whichever step fails it resolves to a failure result carrying the file
\* path and the error message; analyzeFile of src/analyzer/index.ts
\* rejects for a missing path and for a path that is not a .java file.
C2_FailureCaptured ==
    /\ \A k \in DOMAIN calls :
          /\ calls[k].promise.state # "rejected"
          /\ calls[k].pc = "settled" =>
                /\ calls[k].promise.state = "resolved"
                /\ calls[k].promise.value.file = calls[k].file
                /\ FailsAnalysis(calls[k].file) <=> hasError(calls[k].promise.value)
    /\ phase = "tsSettled" =>
          LET f == FileSystem(tsCall.file)
          IN  (~f.exists \/ toLowerCase(f.ext) # ".java")
                  => tsCall.promise.state = "rejected"

\* a call whose scanner raised has settled with a failure result
C2_Witness ==
    \E k \in DOMAIN calls :
        /\ calls[k].pc = "settled"
        /\ FileSystem(calls[k].file).content.scan = "raises"
        /\ calls[k].steps[Len(calls[k].steps)] = "parse"
        /\ hasError(calls[k].promise.value)

\* C3: whatever subset of the files fails, the batch returns, with one
\* result per input file and analyzedFiles + errorFiles = totalFiles =
\* number of input paths = number of entries in files.
C3_ReportComplete ==
    /\ results.summary.analyzedFiles + results.summary.errorFiles
            = results.summary.totalFiles
    /\ results.summary.totalFiles = Len(filePaths)
    /\ Len(results.files) = Len(filePaths)
    /\ \A p \in Paths :
            Occurrences([i \in 1..Len(results.files) |-> results.files[i].file], p)
                = Occurrences(filePaths, p)

C4_EmptyAggregatesAreZero ==
    (phase = "returned" /\ Successes = {}) =>
        /\ results.summary.analyzedFiles = 0
        /\ results.summary.errorFiles = Len(filePaths)
        /\ results.aggregated.complexity.cyclomatic
                = [min |-> 0, max |-> 0, avg |-> Zero, total |-> 0]
        /\ results.aggregated.complexity.cognitive
                = [min |-> 0, max |-> 0, avg |-> Zero, total |-> 0]

\* a returned batch of several files that all failed
C4_Witness ==
    /\ phase = "returned"
    /\ Len(filePaths) >= 2
    /\ Successes = {}
    /\ results.summary.errorFiles = Len(filePaths)

NumericView(res) ==
    [totalFiles |-> res.summary.totalFiles,
     analyzedFiles |-> res.summary.analyzedFiles,
     errorFiles |-> res.summary.errorFiles,
     totalLines |-> res.summary.totalLines,
     totalSize |-> res.summary.totalSize,
     cyclomatic |-> res.aggregated.complexity.cyclomatic,
     cognitive |-> res.aggregated.complexity.cognitive,
     functions |-> res.aggregated.functions.total,
     classes |-> res.aggregated.classes.total]

\* seq with the entries at positions i and j exchanged
Swap(seq, i, j) ==
    [k \in 1..Len(seq) |-> IF k = i THEN seq[j] ELSE IF k = j THEN seq[i] ELSE seq[k]]

\* the report obtained by folding the per-file results in the given order
ReportOf(fileResults) ==
    finishResults(foldChunk(newResults(filePaths), fileResults, 1))

\* C6: the numeric values of the report are the same whatever the order
\* in which the per-file results are folded (every exchange of two results
\* leaves them unchanged; every batch order is itself an input).
C6_FoldOrderIrrelevant ==
    phase = "returned" =>
        \A i, j \in 1..Len(results.files) :
            NumericView(ReportOf(Swap(results.files, i, j))) = NumericView(results)

\* a returned batch whose successful files have different scores, so that
\* an order-dependent fold would show
C6_Witness ==
    /\ phase = "returned"
    /\ Cardinality(Successes) >= 2
    /\ \E i, j \in Successes :
            /\ i < j
            /\ results.files[i].complexity.cyclomatic.total
                    > results.files[j].complexity.cyclomatic.total

\* the most complex entity, first seen first, among the entity lists of
\* the successful results in processing order
Entities(kind) ==
    {<<i, k>> : i \in Successes, k \in 1..3} \cap
    {e \in (1..Len(filePaths)) \X (1..3) :
        e[2] <= Len(FileSystem(filePaths[e[1]]).content[kind])}
EntityScore(kind, e) == FileSystem(filePaths[e[1]]).content[kind][e[2]].cyclomatic
IsFirstMostComplex(kind, e) ==
    /\ e \in Entities(kind)
    /\ \A o \in Entities(kind) :
          \/ EntityScore(kind, o) < EntityScore(kind, e)
          \/ /\ EntityScore(kind, o) = EntityScore(kind, e)
             /\ (e[1] < o[1] \/ (e[1] = o[1] /\ e[2] <= o[2]))
NamesFirstMostComplex(kind, ref) ==
    /\ ref # Null
    /\ \E e \in Entities(kind) :
          /\ IsFirstMostComplex(kind, e)
          /\ ref.file = filePaths[e[1]]
          /\ ref.name = FileSystem(filePaths[e[1]]).content[kind][e[2]].name

\* C7: after a batch in which some successful file contains a function
\* (class), the report's most-complex function (class) reference names the
\* file and entity of maximal complexity, the first seen among equals.
C7_MostComplexReference ==
    phase = "returned" =>
        /\ Entities("functions") # {}
                => NamesFirstMostComplex("functions", results.aggregated.functions.mostComplex)
        /\ Entities("classes") # {}
                => NamesFirstMostComplex("classes", results.aggregated.classes.mostComplex)

\* C8: an oversized file yields the too-large failure and nothing but the
\* stat is performed for it: no read, detection, lookup or scan.
C8_SizeCheckFirst ==
    \A k \in DOMAIN calls :
        LET f == FileSystem(calls[k].file)
        IN  (f.exists /\ f.size > maxFileSize) =>
                /\ calls[k].steps = <<"stat">>
                /\ calls[k].pc \in {"stat", "settled"}
                /\ calls[k].pc = "settled" =>
                        /\ hasError(calls[k].promise.value)
                        /\ calls[k].promise.value.error = "File too large"

\* the call for an oversized file has settled
C8_Witness ==
    \E k \in DOMAIN calls :
        /\ FileSystem(calls[k].file).exists
        /\ FileSystem(calls[k].file).size > maxFileSize
        /\ calls[k].pc = "settled"
        /\ calls[k].promise.value.error = "File too large"

C10_RegistrationStaysFound ==
    \A id \in DOMAIN live :
        /\ getAnalyzer(registry, id).value = live[id]
        /\ \A alias \in live[id].aliases : getAnalyzer(registry, alias).value = live[id]
        /\ \A ext \in live[id].extensions :
                getAnalyzerByExtension(registry, ext).value = live[id]

\* the capability set of a scanner: produce the structural model, compute
\* cyclomatic, compute cognitive (the BaseAnalyzer interface)
RequiredCapabilities ==
    {"parse", "calculateCyclomaticComplexity", "calculateCognitiveComplexity"}
ExposesCapabilities(AnalyzerClass) ==
    /\ AnalyzerClass.typeof = "function"
    /\ RequiredCapabilities \subseteq AnalyzerClass.methods

\* C11: register raises exactly for the scanners that do not expose the
\* capability set (structural model, cyclomatic, cognitive), and a rejected
\* registration leaves the id, extension and alias tables as they were.
C11_RegisterValidates ==
    [][\A name \in RegistryNames, AnalyzerClass \in RegistryClasses,
          options \in RegistryOptions :
            Register(name, AnalyzerClass, options) =>
                /\ lastLookup'.threw <=> ~ExposesCapabilities(AnalyzerClass)
                /\ lastLookup'.threw => registry' = registry]_vars

\* a lookup that returns no scanner: null or undefined
NoScanner(v) == ~Truthy(v)

\* unregister of an id that is not registered returns false and changes
\* nothing
UnregisterOfUnknown ==
    \A name \in RegistryNames :
        (Unregister(name) /\ toLowerCase(name) \notin DOMAIN registry.analyzers)
            => (lastLookup' = [returned |-> FALSE] /\ registry' = registry)

Whitespace == {" ", "\n"}
Punctuation == {"(", ")", "{", "}", ";", "&", "|", "?", ":", "!", "=", "/", "*", ">"}
IsWord(t) == t \notin Whitespace \cup Punctuation

\* \bw\b at position i: the token is w and no word character touches it
MatchesWord(text, i, w) ==
    /\ text[i] = w
    /\ (i = 1 \/ ~IsWord(text[i - 1]))
    /\ (i = Len(text) \/ ~IsWord(text[i + 1]))

\* content.match(/\bw\b/g) length, summed over the words of a pattern
\* (w1|w2|...)
countWords(text, ws) ==
    Cardinality({i \in 1..Len(text) : \E w \in ws : MatchesWord(text, i, w)})

\* first position from i on that holds no whitespace
RECURSIVE skipWhitespace(_, _)
skipWhitespace(text, i) ==
    IF i <= Len(text) /\ text[i] \in Whitespace THEN skipWhitespace(text, i + 1) ELSE i

\* content.match(/\belse\s+if\b/g) length
countElseIf(text) ==
    Cardinality({i \in 1..Len(text) :
        /\ text[i] = "else"
        /\ (i = 1 \/ ~IsWord(text[i - 1]))
        /\ i < Len(text) /\ text[i + 1] \in Whitespace
        /\ LET j == skipWhitespace(text, i + 1)
           IN  /\ j <= Len(text) /\ text[j] = "if"
               /\ (j = Len(text) \/ ~IsWord(text[j + 1]))})

\* content.match(/cc/g) length for a doubled character c, scanning from i:
\* matches do not overlap
RECURSIVE countPairs(_, _, _)
countPairs(text, c, i) ==
    IF i >= Len(text) THEN 0
    ELSE IF text[i] = c /\ text[i + 1] = c THEN 1 + countPairs(text, c, i + 2)
    ELSE countPairs(text, c, i + 1)

\* content.match(/\?/g) length
countChar(text, c) == Cardinality({i \in 1..Len(text) : text[i] = c})

\* content.trim().length === 0
isBlank(text) == \A i \in 1..Len(text) : text[i] \in Whitespace

(***************************************************************************)
(* CyclomaticComplexityCalculator (src/analyzer/complexity/cyclomatic.ts)   *)
(***************************************************************************)
Flags == {"countCaseStatements", "countLogicalOperators", "countTernary"}
DEFAULT_CONFIG == [f \in Flags |-> TRUE]

\* variant: a flag that is not given is off
mergeConfig_defaultOff(config) ==
    [f \in Flags |-> IF f \in DOMAIN config THEN config[f] ELSE FALSE]

\* constructor: { ...DEFAULT_CONFIG, ...config }, config holding any subset
\* of the flags
mergeConfig(config) ==
    [f \in Flags |-> IF f \in DOMAIN config THEN config[f] ELSE DEFAULT_CONFIG[f]]

\* the always-counted patterns of calculate, in the order of the code
corePatterns(text) ==
    countWords(text, {"if"}) + countElseIf(text) + countWords(text, {"while"})
    + countWords(text, {"for"}) + countWords(text, {"do"})
    + countWords(text, {"catch"}) + countWords(text, {"switch"})

\* variant: no base point and no floor
calculate_noBase(text, config) == corePatterns(text)

calculate(text, config) ==
    IF text = << >> \/ isBlank(text) THEN 1
    ELSE LET cfg == mergeConfig(config)
             complexity ==
                1 + corePatterns(text)
                + (IF cfg.countCaseStatements THEN countWords(text, {"case"}) ELSE 0)
                + (IF cfg.countLogicalOperators
                   THEN countPairs(text, "&", 1) + countPairs(text, "|", 1) ELSE 0)
                + (IF cfg.countTernary THEN countChar(text, "?") ELSE 0)
         IN  Max(1, complexity)

(***************************************************************************)
(* JavaAnalyzer.calculateCyclomaticComplexity (lib/analyzer, Java scanner)  *)
(***************************************************************************)
\* code.match(/&&|\|\||!(?!=)/g) length, scanning from i
RECURSIVE countLogicalOperators(_, _)
countLogicalOperators(text, i) ==
    IF i > Len(text) THEN 0
    ELSE IF i < Len(text) /\ text[i] \in {"&", "|"} /\ text[i + 1] = text[i]
         THEN 1 + countLogicalOperators(text, i + 2)
    ELSE IF text[i] = "!" /\ (i = Len(text) \/ text[i + 1] # "=")
         THEN 1 + countLogicalOperators(text, i + 1)
    ELSE countLogicalOperators(text, i + 1)

\* position of the first ":" after i on the same line, or 0
RECURSIVE nextColon(_, _)
nextColon(text, i) ==
    IF i > Len(text) \/ text[i] = "\n" THEN 0
    ELSE IF text[i] = ":" THEN i
    ELSE nextColon(text, i + 1)

\* code.match(/\?.*?:/g) length, scanning from i
RECURSIVE countTernary(_, _)
countTernary(text, i) ==
    IF i > Len(text) THEN 0
    ELSE IF text[i] = "?" /\ nextColon(text, i + 1) # 0
         THEN 1 + countTernary(text, nextColon(text, i + 1) + 1)
    ELSE countTernary(text, i + 1)

javaCyclomaticComplexity(text) ==
    1 + countWords(text, {"if", "else", "while", "for", "do", "switch", "case", "default"})
      + countLogicalOperators(text, 1)
      + countTernary(text, 1)
      + countWords(text, {"catch"})
      + countWords(text, {"case"})

(***************************************************************************)
(* JavaScriptAnalyzer.calculateCyclomaticComplexity (javascript.js)         *)
(***************************************************************************)
\* the nodes that traverse hands to the visitor, by what the visitor reads:
\* type, and for some types test or operator
Node(type) == [type |-> type, test |-> FALSE, operator |-> ""]
NodeKinds ==
    {Node(t) : t \in {"Program", "FunctionDeclaration", "IfStatement",
                     "ConditionalExpression", "ForStatement", "ForInStatement",
                     "ForOfStatement", "WhileStatement", "DoWhileStatement",
                     "CatchClause"}}
    \cup {[type |-> "SwitchCase", test |-> b, operator |-> ""] : b \in BOOLEAN}
    \cup {[type |-> "LogicalExpression", test |-> FALSE, operator |-> o] :
                o \in {"&&", "||", "??"}}

\* what the visitor adds for one node
nodePoints(n) ==
    CASE n.type \in {"IfStatement", "ConditionalExpression", "ForStatement",
                     "ForInStatement", "ForOfStatement", "WhileStatement",
                     "DoWhileStatement", "CatchClause"} -> 1
      [] n.type = "SwitchCase" -> IF n.test THEN 1 ELSE 0
      [] n.type = "LogicalExpression" -> IF n.operator \in {"&&", "||"} THEN 1 ELSE 0
      [] OTHER -> 0

RECURSIVE visitFrom(_, _)
visitFrom(nodes, i) ==
    IF i > Len(nodes) THEN 0 ELSE nodePoints(nodes[i]) + visitFrom(nodes, i + 1)

jsCyclomaticComplexity(nodes) == 1 + visitFrom(nodes, 1)

(***************************************************************************)
(* Lines of a text                                                          *)
(***************************************************************************)
\* content.split('\n'): the lines, from position i on, cur being the line
\* collected so far
RECURSIVE splitFrom(_, _, _)
splitFrom(text, i, cur) ==
    IF i > Len(text) THEN <<cur>>
    ELSE IF text[i] = "\n" THEN <<cur>> \o splitFrom(text, i + 1, << >>)
    ELSE splitFrom(text, i + 1, Append(cur, text[i]))
split(text) == splitFrom(text, 1, << >>)

\* String.prototype.trim on a line
RECURSIVE trimStart(_)
trimStart(line) ==
    IF line # << >> /\ Head(line) \in Whitespace THEN trimStart(Tail(line)) ELSE line
RECURSIVE trimEnd(_)
trimEnd(line) ==
    IF line # << >> /\ line[Len(line)] \in Whitespace
    THEN trimEnd(SubSeq(line, 1, Len(line) - 1)) ELSE line
trim(line) == trimEnd(trimStart(line))

\* line.includes(a + b) for two single-character tokens
includesPair(line, a, b) ==
    \E i \in 1..(Len(line) - 1) : line[i] = a /\ line[i + 1] = b
\* line.startsWith(a + b)
startsWithPair(line, a, b) == Len(line) >= 2 /\ line[1] = a /\ line[2] = b

\* line.split('//')[0]
beforeLineComment(line) ==
    IF includesPair(line, "/", "/")
    THEN SubSeq(line, 1, (CHOOSE i \in 1..(Len(line) - 1) :
                            /\ line[i] = "/" /\ line[i + 1] = "/"
                            /\ \A j \in 1..(i - 1) : ~(line[j] = "/" /\ line[j + 1] = "/")) - 1)
    ELSE line

\* /\b(w1|w2...)/ at position i: a word of ws that starts a word
StartsWord(line, i, ws) == line[i] \in ws /\ (i = 1 \/ ~IsWord(line[i - 1]))

\* /\b(w1|w2...)\s*c/.test(line)
wordThen(line, ws, c) ==
    \E i \in 1..Len(line) :
        /\ StartsWord(line, i, ws)
        /\ LET j == skipWhitespace(line, i + 1)
           IN  j <= Len(line) /\ line[j] = c

\* \s+if right after position i
spaceThenIf(line, i) ==
    /\ i < Len(line) /\ line[i + 1] \in Whitespace
    /\ LET j == skipWhitespace(line, i + 1)
       IN  j <= Len(line) /\ line[j] = "if"

\* /\belse\s+if/.test(line)
hasElseIf(line) ==
    \E i \in 1..Len(line) : StartsWord(line, i, {"else"}) /\ spaceThenIf(line, i)

\* /\belse\s+if\s*\(/.test(line)
hasElseIfParen(line) ==
    \E i \in 1..Len(line) :
        /\ StartsWord(line, i, {"else"}) /\ spaceThenIf(line, i)
        /\ LET j == skipWhitespace(line, skipWhitespace(line, i + 1) + 1)
           IN  j <= Len(line) /\ line[j] = "("

\* /\belse\b(?!\s+if)/.test(line)
hasPlainElse(line) ==
    \E i \in 1..Len(line) : MatchesWord(line, i, "else") /\ ~spaceThenIf(line, i)

\* (line.match(/&&|\|\|/g) || []).length, scanning from i
RECURSIVE countAndOr(_, _)
countAndOr(line, i) ==
    IF i >= Len(line) THEN 0
    ELSE IF line[i] \in {"&", "|"} /\ line[i + 1] = line[i]
         THEN 1 + countAndOr(line, i + 2)
    ELSE countAndOr(line, i + 1)

(***************************************************************************)
(* BaseAnalyzer.calculateCognitiveComplexity (src/analyzer/languages/base.ts) *)
(***************************************************************************)
\* what one code line (trimmed, comments removed, not empty) adds at a
\* nesting level: rules 1 to 10
linePoints(line, nestingLevel) ==
    (IF wordThen(line, {"if"}, "(") /\ ~hasElseIf(line) THEN 1 + nestingLevel
     ELSE IF hasElseIfParen(line) THEN 1
     ELSE IF hasPlainElse(line) THEN 1
     ELSE IF wordThen(line, {"for", "while", "do"}, "(") THEN 1 + nestingLevel
     ELSE IF wordThen(line, {"switch"}, "(") THEN 1 + nestingLevel
     ELSE IF wordThen(line, {"catch"}, "(") THEN 1 + nestingLevel
     ELSE IF wordThen(line, {"break", "continue"}, ";") THEN 1
     ELSE 0)
    + (IF ~hasElseIf(line) THEN countAndOr(line, 1) ELSE 0)
    + countChar(line, "?") * (1 + nestingLevel)

\* variant: the nesting level may fall below 0
nestingAfter_noFloor(line, next, nestingLevel) ==
    LET opens ==
            /\ \E i \in 1..Len(line) :
                    MatchesWord(line, i, line[i])
                    /\ line[i] \in {"if", "for", "while", "do", "switch", "catch", "else"}
            /\ line[Len(line)] # ";"
            /\ (countChar(line, "{") > 0 \/ (next # << >> /\ next[1] = "{"))
        entered == IF opens THEN nestingLevel + 1 ELSE nestingLevel
    IN  entered - countChar(line, "}")

\* the nesting level after the line; next is the following line, trimmed
\* (empty past the end)
nestingAfter(line, next, nestingLevel) ==
    LET opens ==
            /\ \E i \in 1..Len(line) :
                    MatchesWord(line, i, line[i])
                    /\ line[i] \in {"if", "for", "while", "do", "switch", "catch", "else"}
            /\ line[Len(line)] # ";"
            /\ (countChar(line, "{") > 0 \/ (next # << >> /\ next[1] = "{"))
        entered == IF opens THEN nestingLevel + 1 ELSE nestingLevel
    IN  Max(0, entered - countChar(line, "}"))

\* one round of the loop over the lines, at the i-th line: the running
\* complexity, nesting level and comment flag after it
cognitiveLine(lines, i, complexity, nestingLevel, inMultilineComment) ==
    LET raw == trim(lines[i])
        opened == inMultilineComment \/ includesPair(raw, "/", "*")
        line == trim(beforeLineComment(raw))
        next == IF i < Len(lines) THEN trim(lines[i + 1]) ELSE << >>
        skipped == [complexity |-> complexity, nestingLevel |-> nestingLevel,
                    inMultilineComment |-> opened]
    IN  IF includesPair(raw, "*", "/")
        THEN [skipped EXCEPT !.inMultilineComment = FALSE]
        ELSE IF opened \/ startsWithPair(raw, "/", "/")
                       \/ (raw # << >> /\ raw[1] = "*")
        THEN skipped
        ELSE IF line = << >>
        THEN skipped
        ELSE [complexity |-> complexity + linePoints(line, nestingLevel),
              nestingLevel |-> nestingAfter(line, next, nestingLevel),
              inMultilineComment |-> opened]

\* the loop over the lines from the i-th
RECURSIVE cognitiveFrom(_, _, _, _, _)
cognitiveFrom(lines, i, complexity, nestingLevel, inMultilineComment) ==
    IF i > Len(lines) THEN complexity
    ELSE LET after == cognitiveLine(lines, i, complexity, nestingLevel,
                                    inMultilineComment)
         IN  cognitiveFrom(lines, i + 1, after.complexity, after.nestingLevel,
                           after.inMultilineComment)

calculateCognitiveComplexity(text) ==
    IF text = << >> THEN 0
    ELSE Max(0, cognitiveFrom(split(text), 1, 0, 0, FALSE))

(***************************************************************************)
(* JavaAnalyzer.calculateCognitiveComplexity / calculateNestingDepth        *)
(* (lib/analyzer, Java scanner)                                             *)
(***************************************************************************)
\* isComplexityIncreasingConstruct(line)
isComplexityIncreasingConstruct(line) ==
    \/ countWords(line, {"if", "while", "for", "do", "switch", "catch", "case"}) > 0
    \/ countElseIf(line) > 0
    \/ countPairs(line, "&", 1) > 0
    \/ countPairs(line, "|", 1) > 0
    \/ \E i \in 1..Len(line) : line[i] = "?" /\ nextColon(line, i + 1) > 0

\* the nesting level after a line
javaNestingAfter(line, nestingLevel) ==
    Max(0, nestingLevel + countChar(line, "{") - countChar(line, "}"))

RECURSIVE javaCognitiveFrom(_, _, _, _)
javaCognitiveFrom(lines, i, complexity, nestingLevel) ==
    IF i > Len(lines) THEN complexity
    ELSE LET line == trim(lines[i])
         IN  javaCognitiveFrom(lines, i + 1,
                complexity + (IF isComplexityIncreasingConstruct(line)
                              THEN 1 + nestingLevel ELSE 0),
                javaNestingAfter(line, nestingLevel))

javaCognitiveComplexity(code) == javaCognitiveFrom(split(code), 1, 0, 0)

\* calculateNestingDepth(code): the loop over the characters from the i-th
RECURSIVE nestingDepthFrom(_, _, _, _)
nestingDepthFrom(code, i, depth, maxDepth) ==
    IF i > Len(code) THEN maxDepth
    ELSE IF code[i] = "{"
         THEN nestingDepthFrom(code, i + 1, depth + 1, Max(maxDepth, depth + 1))
    ELSE IF code[i] = "}" THEN nestingDepthFrom(code, i + 1, depth - 1, maxDepth)
    ELSE nestingDepthFrom(code, i + 1, depth, maxDepth)

javaNestingDepth(code) == nestingDepthFrom(code, 1, 0, 0)

(***************************************************************************)
(* JavaAnalyzer.extractFunctions (src/analyzer/languages/java.ts)           *)
(***************************************************************************)
\* the words at the start of a line, each followed by whitespace or by the
\* end of the run: [words, next] with next the position after the run and
\* the whitespace behind it
RECURSIVE leadingWords(_, _, _)
leadingWords(line, i, words) ==
    LET j == skipWhitespace(line, i)
    IN  IF j <= Len(line) /\ IsWord(line[j])
        THEN leadingWords(line, j + 1, Append(words, line[j]))
        ELSE [words |-> words, next |-> j]

\* line.match(methodPattern): the modifiers, return type and name in front
\* of a parenthesis that is closed on the line; [matched, returnType,
\* methodName]
matchMethod(line) ==
    LET lead == leadingWords(line, 1, << >>)
        words == lead.words
        k == Len(words)
        access == {"public", "private", "protected"}
        shaped ==
            \/ k = 2
            \/ k = 3 /\ words[1] \in access \cup {"static"}
            \/ k = 4 /\ words[1] \in access /\ words[2] = "static"
        closed ==
            /\ lead.next <= Len(line) /\ line[lead.next] = "("
            /\ \E c \in (lead.next + 1)..Len(line) : line[c] = ")"
    IN  IF shaped /\ closed
        THEN [matched |-> TRUE, returnType |-> words[k - 1], methodName |-> words[k]]
        ELSE [matched |-> FALSE, returnType |-> "", methodName |-> ""]

\* the search for the end of the method that starts at line i, from line j
\* with the running brace count and text: [endLine, methodContent]
RECURSIVE methodEnd(_, _, _, _, _)
methodEnd(lines, i, j, braceCount, methodContent) ==
    IF j > Len(lines) THEN [endLine |-> i, methodContent |-> methodContent]
    ELSE IF lines[j] = << >> THEN methodEnd(lines, i, j + 1, braceCount, methodContent)
    ELSE LET content == methodContent \o lines[j] \o <<"\n">>
             count == braceCount + countChar(lines[j], "{") - countChar(lines[j], "}")
         IN  IF count = 0 /\ j > i
             THEN [endLine |-> j, methodContent |-> content]
             ELSE methodEnd(lines, i, j + 1, count, content)

\* the loop over the lines from the i-th
RECURSIVE extractFunctionsFrom(_, _)
extractFunctionsFrom(lines, i) ==
    IF i > Len(lines) THEN << >>
    ELSE LET match == matchMethod(lines[i])
             end == methodEnd(lines, i, i, 0, << >>)
         IN  IF lines[i] = << >> \/ ~match.matched
                \/ match.methodName = "main" \/ match.returnType = "void"
             THEN extractFunctionsFrom(lines, i + 1)
             ELSE << [name |-> match.methodName, startLine |-> i,
                      endLine |-> end.endLine,
                      complexity |-> [cyclomatic |-> calculate(end.methodContent, EmptyMap)],
                      returnType |-> match.returnType] >>
                  \o extractFunctionsFrom(lines, i + 1)

extractFunctions(text) == extractFunctionsFrom(split(text), 1)

(***************************************************************************)
(* JavaScriptAnalyzer.simpleParser and its helpers (javascript.js)          *)
(***************************************************************************)
\* Line indices are those of the code: startLine, currentLine and endLine
\* count from 0, so the line at index i is lines[i + 1] here.

\* line.includes(w + c) for a word w and any one of the characters cs
includesWordThen(line, w, cs) ==
    \E i \in 1..(Len(line) - 1) : line[i] = w /\ line[i + 1] \in cs

isCommentLine(line) ==
    LET trimmed == trim(line)
    IN  \/ startsWithPair(trimmed, "/", "/")
        \/ startsWithPair(trimmed, "/", "*")
        \/ (trimmed # << >> /\ trimmed[1] = "*")

\* the word after keyword w and whitespace, or the default name
nameAfter(line, w, default) ==
    LET matches == {i \in 1..(Len(line) - 2) :
                        /\ line[i] = w /\ line[i + 1] \in Whitespace
                        /\ skipWhitespace(line, i + 1) <= Len(line)
                        /\ IsWord(line[skipWhitespace(line, i + 1)])}
    IN  IF matches = {} THEN default
        ELSE LET i == CHOOSE i \in matches : \A h \in matches : i <= h
             IN  line[skipWhitespace(line, i + 1)]

\* the brace scan of parseFunction and parseClass from character c of the
\* line at index i: the index of the line on which the first opened brace
\* is closed, or -1 when the scan ends without that
RECURSIVE bodyEnd(_, _, _, _, _)
bodyEnd(lines, i, c, braceCount, foundStart) ==
    IF i >= Len(lines) THEN -1
    ELSE IF c > Len(lines[i + 1])
         THEN IF foundStart /\ braceCount = 0 THEN -1
              ELSE bodyEnd(lines, i + 1, 1, braceCount, foundStart)
    ELSE IF lines[i + 1][c] = "{" THEN bodyEnd(lines, i, c + 1, braceCount + 1, TRUE)
    ELSE IF lines[i + 1][c] = "}"
         THEN IF foundStart /\ braceCount - 1 = 0 THEN i
              ELSE bodyEnd(lines, i, c + 1, braceCount - 1, foundStart)
    ELSE bodyEnd(lines, i, c + 1, braceCount, foundStart)

\* endLine of parseFunction and parseClass
declarationEnd(lines, startLine) ==
    LET i == bodyEnd(lines, startLine, 1, 0, FALSE)
    IN  IF i >= 0 THEN i + 1 ELSE startLine

parseFunction(lines, startLine) ==
    LET line == trim(lines[startLine + 1])
        name == IF includesWordThen(line, "function", {" "})
                THEN nameAfter(line, "function", "anonymous")
                ELSE nameAfter(line, "const", "anonymous")
        endLine == declarationEnd(lines, startLine)
    IN  [node |-> [type |-> "FunctionDeclaration", name |-> name,
                   start |-> startLine + 1, end |-> endLine],
         endLine |-> endLine]

parseClass(lines, startLine) ==
    LET line == trim(lines[startLine + 1])
        endLine == declarationEnd(lines, startLine)
    IN  [node |-> [type |-> "ClassDeclaration",
                   name |-> nameAfter(line, "class", "AnonymousClass"),
                   start |-> startLine + 1, end |-> endLine],
         endLine |-> endLine]

\* the loop of parseIfStatement from the line at index i
RECURSIVE ifEnd(_, _, _, _, _)
ifEnd(lines, startLine, i, braceCount, foundStart) ==
    IF i >= Len(lines) THEN startLine + 1
    ELSE LET currentLine == lines[i + 1]
             opens == countChar(currentLine, "{") > 0
             closes == countChar(currentLine, "}") > 0
             count == braceCount + (IF opens THEN 1 ELSE 0) - (IF closes THEN 1 ELSE 0)
             found == foundStart \/ opens
         IN  IF closes /\ found /\ count = 0 THEN i + 1
             ELSE IF i = startLine /\ ~opens THEN i + 1
             ELSE ifEnd(lines, startLine, i + 1, count, found)

parseIfStatement(lines, startLine) ==
    LET endLine == ifEnd(lines, startLine, startLine, 0, FALSE)
    IN  [node |-> [type |-> "IfStatement", name |-> "",
                   start |-> startLine + 1, end |-> endLine],
         endLine |-> endLine]

\* findBlockEnd from character c of the line at index i
RECURSIVE blockEnd(_, _, _, _, _, _)
blockEnd(lines, startLine, i, c, braceCount, foundStart) ==
    IF i >= Len(lines) THEN Len(lines)
    ELSE IF c > Len(lines[i + 1])
         THEN IF i = startLine /\ countChar(lines[i + 1], "{") = 0 THEN i + 1
              ELSE blockEnd(lines, startLine, i + 1, 1, braceCount, foundStart)
    ELSE IF lines[i + 1][c] = "{"
         THEN blockEnd(lines, startLine, i, c + 1, braceCount + 1, TRUE)
    ELSE IF lines[i + 1][c] = "}"
         THEN IF foundStart /\ braceCount - 1 = 0 THEN i + 1
              ELSE blockEnd(lines, startLine, i, c + 1, braceCount - 1, foundStart)
    ELSE blockEnd(lines, startLine, i, c + 1, braceCount, foundStart)
findBlockEnd(lines, startLine) == blockEnd(lines, startLine, startLine, 1, 0, FALSE)

\* parseForStatement, parseWhileStatement, parseTryStatement
parseBlockStatement(type, lines, startLine) ==
    LET endLine == findBlockEnd(lines, startLine)
    IN  [node |-> [type |-> type, name |-> "",
                   start |-> startLine + 1, end |-> endLine],
         endLine |-> endLine]

NoNode == [type |-> "", name |-> "", start |-> 0, end |-> 0]

\* one round of the while loop of simpleParser at currentLine: the node
\* pushed (NoNode when the line is skipped) and the next currentLine
parseLine(lines, currentLine) ==
    LET line == trim(lines[currentLine + 1])
    IN  IF line = << >> \/ isCommentLine(line)
        THEN [node |-> NoNode, endLine |-> currentLine + 1]
        ELSE IF includesWordThen(line, "function", {" "})
                \/ (includesWordThen(line, "const", {" "}) /\ includesPair(line, "=", ">"))
        THEN parseFunction(lines, currentLine)
        ELSE IF includesWordThen(line, "class", {" "})
        THEN parseClass(lines, currentLine)
        ELSE IF includesWordThen(line, "if", {" ", "("})
        THEN parseIfStatement(lines, currentLine)
        ELSE IF includesWordThen(line, "for", {" ", "("})
        THEN parseBlockStatement("ForStatement", lines, currentLine)
        ELSE IF includesWordThen(line, "while", {" ", "("})
        THEN parseBlockStatement("WhileStatement", lines, currentLine)
        ELSE IF includesWordThen(line, "try", {" ", "{"})
        THEN parseBlockStatement("TryStatement", lines, currentLine)
        ELSE [node |-> [type |-> "ExpressionStatement", name |-> "",
                        start |-> currentLine + 1, end |-> currentLine + 1],
              endLine |-> currentLine + 1]

\* the typed nodes that traverse visits in an AST with this body: the
\* program, each statement, and the catch clause of each try statement
RECURSIVE traversal(_, _)
traversal(body, i) ==
    IF i > Len(body) THEN << >>
    ELSE <<Node(body[i].type)>>
         \o (IF body[i].type = "TryStatement" THEN <<Node("CatchClause")>> ELSE << >>)
         \o traversal(body, i + 1)
traverse(body) == <<Node("Program")>> \o traversal(body, 1)

\* JavaScriptAnalyzer.extractFunctions / extractClasses
RECURSIVE selectNodes(_, _, _)
selectNodes(body, types, i) ==
    IF i > Len(body) THEN << >>
    ELSE (IF body[i].type \in types
          THEN <<[name |-> body[i].name, startLine |-> body[i].start,
                  endLine |-> body[i].end]>>
          ELSE << >>) \o selectNodes(body, types, i + 1)
jsExtractFunctions(body) ==
    selectNodes(body, {"FunctionDeclaration", "FunctionExpression",
                       "ArrowFunctionExpression"}, 1)
jsExtractClasses(body) == selectNodes(body, {"ClassDeclaration", "ClassExpression"}, 1)

\* BaseAnalyzer.isNestingNode (base.js), by node type
isNestingNode(type) ==
    type \in {"IfStatement", "WhileStatement", "ForStatement", "DoWhileStatement",
              "SwitchStatement", "TryStatement", "CatchClause", "FunctionDeclaration",
              "ArrowFunctionExpression", "FunctionExpression", "ClassDeclaration",
              "MethodDefinition"}

\* BaseAnalyzer.calculateNestingDepth: the nesting nodes among the ancestors
\* of a node, given as the types from the root down to the parent
RECURSIVE calculateNestingDepth(_)
calculateNestingDepth(ancestors) ==
    IF ancestors = << >> THEN 0
    ELSE (IF isNestingNode(Head(ancestors)) THEN 1 ELSE 0)
         + calculateNestingDepth(Tail(ancestors))

\* a node as the cognitive visitor reads it: type, operator, label, and the
\* chain of parents
CognitiveNode(type, ancestors) ==
    [type |-> type, operator |-> "", label |-> FALSE, ancestors |-> ancestors]

\* what the visitor of calculateCognitiveComplexity adds for one node
cognitivePoints(n) ==
    CASE n.type \in {"IfStatement", "ConditionalExpression", "SwitchStatement",
                     "ForStatement", "ForInStatement", "ForOfStatement",
                     "WhileStatement", "DoWhileStatement", "CatchClause"} ->
                1 + calculateNestingDepth(n.ancestors)
      [] n.type = "LogicalExpression" -> IF n.operator \in {"&&", "||"} THEN 1 ELSE 0
      [] n.type \in {"BreakStatement", "ContinueStatement"} -> IF n.label THEN 1 ELSE 0
      [] OTHER -> 0

RECURSIVE cognitiveVisitFrom(_, _)
cognitiveVisitFrom(nodes, i) ==
    IF i > Len(nodes) THEN 0
    ELSE cognitivePoints(nodes[i]) + cognitiveVisitFrom(nodes, i + 1)

\* JavaScriptAnalyzer.calculateCognitiveComplexity over the nodes visited
jsCognitiveVisit(nodes) == cognitiveVisitFrom(nodes, 1)

\* JavaScriptAnalyzer.calculateCognitiveComplexity on such an AST: each
\* statement lies at depth 0, the catch clause of a try statement at depth 1
RECURSIVE jsCognitiveFrom(_, _)
jsCognitiveFrom(body, i) ==
    IF i > Len(body) THEN 0
    ELSE cognitivePoints(CognitiveNode(body[i].type, <<"Program">>))
         + (IF body[i].type = "TryStatement"
            THEN cognitivePoints(CognitiveNode("CatchClause", <<"Program", "TryStatement">>))
            ELSE 0)
         + jsCognitiveFrom(body, i + 1)
\* variant: the program node itself counts one
jsCognitiveComplexity_countProgram(body) == 1 + jsCognitiveFrom(body, 1)

jsCognitiveComplexity(body) == jsCognitiveFrom(body, 1)

(***************************************************************************)
(* The calculators called on their own                                      *)
(***************************************************************************)
\* every text of up to MaxText tokens over the tokens calculate reacts to
TextAlphabet == {"if", "else", "case", "x", " ", "&", "|", "?"}
ShortTexts == UNION {[1..n -> TextAlphabet] : n \in 0..MaxText}

\* `if (x) {}`, ` else if (x) {}`, ` else {}` and the chains built of them
Cond == <<"(", "x", ")">>
Block == <<"{", "}">>
IfAlone == <<"if", " ">> \o Cond
IfBranch == IfAlone \o <<" ">> \o Block
ElseIfBranch == <<" ", "else", " ">> \o IfBranch
PlainElse == <<" ", "else", " ">> \o Block
RECURSIVE ElseIfs(_)
ElseIfs(k) == IF k = 0 THEN << >> ELSE ElseIfBranch \o ElseIfs(k - 1)
IfChain(k, plainElse) ==
    IfBranch \o ElseIfs(k) \o (IF plainElse THEN PlainElse ELSE << >>)
IfElseIfElse == IfChain(1, TRUE)
IfChains == {IfChain(k, b) : k \in 0..MaxChain, b \in BOOLEAN}

\* one construct of every counted kind, and blank texts
EveryKind ==
    <<"if", " ", "while", " ", "for", " ", "do", " ", "switch", " ", "case",
      " ", "catch", " ", "x", "&", "&", "x", "|", "|", "x", "?", "x", ":", "x",
      "\n", "else", "\n", " ", "if", " ", "default", ":", "!", "x", "!", "=">>
BlankTexts == {<<"\n">>, <<" ", "\n", " ">>}

Texts == ShortTexts \cup IfChains \cup {IfAlone, EveryKind} \cup BlankTexts

\* the texts given to the Java scanner: those of the chains and kinds, and
\* every short text over the tokens only it reacts to
JavaAlphabet == {"if", "else", "default", "?", ":", "!", "=", "\n"}
JavaTexts ==
    UNION {[1..n -> JavaAlphabet] : n \in 0..MaxText}
    \cup IfChains \cup {IfAlone, EveryKind}

\* every configuration: any subset of the flags, each given as true or false
Configs == UNION {[given -> BOOLEAN] : given \in SUBSET Flags}

NodeLists == UNION {[1..n -> NodeKinds] : n \in 0..MaxNodes}

interpretComplexity(score) ==
    IF score <= 5 THEN "Simple - Low Risk"
    ELSE IF score <= 10 THEN "Moderate - Medium Risk"
    ELSE IF score <= 20 THEN "Complex - High Risk"
    ELSE IF score <= 50 THEN "Very Complex - Very High Risk"
    ELSE "Extremely Complex - Unmaintainable"

\* the optional entries of the breakdown, by the flag that adds them
optionalBreakdown(text, flag) ==
    CASE flag = "countCaseStatements" ->
            [caseStatements |-> countWords(text, {"case"})]
      [] flag = "countLogicalOperators" ->
            [logicalAnd |-> countPairs(text, "&", 1), logicalOr |-> countPairs(text, "|", 1)]
      [] flag = "countTernary" ->
            [ternaryOperators |-> countChar(text, "?")]

\* variant: the else-if matches are left out of the breakdown
breakdownOf_noElseIf(text, cfg) ==
    [ifStatements |-> countWords(text, {"if"}),
     whileLoops |-> countWords(text, {"while"}),
     forLoops |-> countWords(text, {"for"}),
     doWhileLoops |-> countWords(text, {"do"}),
     switchStatements |-> countWords(text, {"switch"}),
     catchBlocks |-> countWords(text, {"catch"})]

\* breakdown of calculateDetailed under the merged configuration
breakdownOf(text, cfg) ==
    LET core == [ifStatements |-> countWords(text, {"if"}),
                 elseIfStatements |-> countElseIf(text),
                 whileLoops |-> countWords(text, {"while"}),
                 forLoops |-> countWords(text, {"for"}),
                 doWhileLoops |-> countWords(text, {"do"}),
                 switchStatements |-> countWords(text, {"switch"}),
                 catchBlocks |-> countWords(text, {"catch"})]
        case == IF cfg.countCaseStatements
                THEN optionalBreakdown(text, "countCaseStatements") ELSE EmptyMap
        logical == IF cfg.countLogicalOperators
                   THEN optionalBreakdown(text, "countLogicalOperators") ELSE EmptyMap
        ternary == IF cfg.countTernary
                   THEN optionalBreakdown(text, "countTernary") ELSE EmptyMap
    IN  core @@ case @@ logical @@ ternary

\* Object.values(breakdown).reduce((sum, count) => sum + count, 0)
RECURSIVE sumValues(_, _)
sumValues(breakdown, keys) ==
    IF keys = {} THEN 0
    ELSE LET key == CHOOSE k \in keys : TRUE
         IN  breakdown[key] + sumValues(breakdown, keys \ {key})

calculateDetailed(text, config) ==
    IF text = << >> \/ isBlank(text)
    THEN [total |-> 1, breakdown |-> EmptyMap, interpretation |-> "Simple - Low Risk"]
    ELSE LET breakdown == breakdownOf(text, mergeConfig(config))
             total == 1 + sumValues(breakdown, DOMAIN breakdown)
         IN  [total |-> Max(1, total), breakdown |-> breakdown,
              interpretation |-> interpretComplexity(total)]

CalculateDetailed(text, config) ==
    /\ call = Null
    /\ call' = [fn |-> "calculateDetailed", content |-> text, config |-> config]
    /\ ret' = calculateDetailed(text, config)
    /\ UNCHANGED <<registryVars, batchVars>>

Calculate(text, config) ==
    /\ call = Null
    /\ call' = [fn |-> "calculate", content |-> text, config |-> config]
    /\ ret' = calculate(text, config)
    /\ UNCHANGED <<registryVars, batchVars>>

JavaCyclomatic(text) ==
    /\ call = Null
    /\ call' = [fn |-> "javaCyclomaticComplexity", content |-> text]
    /\ ret' = javaCyclomaticComplexity(text)
    /\ UNCHANGED <<registryVars, batchVars>>

JsCyclomatic(nodes) ==
    /\ call = Null
    /\ call' = [fn |-> "jsCyclomaticComplexity", nodes |-> nodes]
    /\ ret' = jsCyclomaticComplexity(nodes)
    /\ UNCHANGED <<registryVars, batchVars>>

(***************************************************************************)
(* LanguageDetector.detectLanguage called on its own                        *)
(***************************************************************************)
\* variant: the MIME table is tried before the extension table
detectLanguageStages_mimeFirst(file, content) ==
    LET langByExt == detectByExtension(file)
        langByMime == detectByMimeType(file)
    IN  IF langByMime # NoLanguage
        THEN [value |-> langByMime, stages |-> <<"mime">>]
        ELSE IF langByExt # NoLanguage
        THEN [value |-> langByExt, stages |-> <<"mime", "extension">>]
        ELSE [value |-> NoLanguage, stages |-> <<"mime", "extension">>]

\* detectLanguage(filePath, content = null), with the stages it went
\* through: the value returned and the detectBy... calls made, in order
detectLanguageStages(file, content) ==
    LET langByExt == detectByExtension(file)
        langByMime == detectByMimeType(file)
    IN  IF langByExt # NoLanguage
        THEN [value |-> langByExt, stages |-> <<"extension">>]
        ELSE IF langByMime # NoLanguage
        THEN [value |-> langByMime, stages |-> <<"extension", "mime">>]
        ELSE IF content # Null /\ ~content.empty
        THEN [value |-> detectByContent(content),
              stages |-> <<"extension", "mime", "content">>]
        ELSE [value |-> NoLanguage, stages |-> <<"extension", "mime">>]

\* mime.lookup(filePath): by the lower-cased extension, "" for false
mimeLookup(ext) ==
    CASE toLowerCase(ext) \in {".js", ".mjs"} -> "application/javascript"
      [] toLowerCase(ext) = ".py" -> "text/x-python"
      [] toLowerCase(ext) = ".java" -> "text/x-java-source"
      [] toLowerCase(ext) = ".txt" -> "text/plain"
      [] OTHER -> ""

DetectExtensions == {".js", ".JS", ".mjs", ".py", ".java", ".txt", ".zz", ""}
DetectFiles == {[ext |-> e, mime |-> mimeLookup(e)] : e \in DetectExtensions}

\* contents handed to detectLanguage: none, the empty string, a shebang
\* line, keyword hits, both, neither
SomeContent == Content(1, "ok", 1, 0, NoFunctions, NoFunctions)
DetectContents ==
    { Null,
      [SomeContent EXCEPT !.empty = TRUE],
      SomeContent,
      [SomeContent EXCEPT !.shebang = "node"],
      [SomeContent EXCEPT !.shebang = "ruby", !.keywords = [python |-> 2]],
      [SomeContent EXCEPT !.keywords = [javascript |-> 1, python |-> 1, java |-> 0]] }

Detect(file, content) ==
    /\ call = Null
    /\ call' = [fn |-> "detectLanguage", file |-> file, content |-> content]
    /\ ret' = detectLanguageStages(file, content)
    /\ UNCHANGED <<registryVars, batchVars>>

(***************************************************************************)
(* BaseAnalyzer.calculateMaintainabilityIndex                               *)
(***************************************************************************)
\* A JavaScript number is finite, NaN, Infinity or -Infinity. Finite
\* values are kept as integers in the unit given where they are used.
Num(v) == [kind |-> "finite", value |-> v]
NaN == [kind |-> "NaN", value |-> 0]
PosInfinity == [kind |-> "Infinity", value |-> 0]
NegInfinity == [kind |-> "-Infinity", value |-> 0]

\* 10000 * ln(n), rounded, for the arguments the model takes logarithms of
LnTable ==
    <<0, 6931, 10986, 13863, 16094, 17918, 19459, 20794, 21972, 23026,
      23979, 24849, 25649, 26391, 27081, 27726>>
Ln(n) ==
    CASE n = 10000 -> 92103
      [] n = 20000 -> 99035
      [] OTHER -> LnTable[n]

\* Math.log(x), in units of 1/10000
mathLog(x) ==
    IF x < 0 THEN NaN ELSE IF x = 0 THEN NegInfinity ELSE Num(Ln(x))

\* (171 - 5.2 * logVolume - 0.23 * complexity - 16.2 * logLines) * 100 / 171
\* in units of 1/171000
indexFormula(logVolume, complexity, logLines) ==
    IF logVolume.kind = "NaN" \/ logLines.kind = "NaN" THEN NaN
    ELSE IF logVolume.kind = "-Infinity" \/ logLines.kind = "-Infinity" THEN PosInfinity
    ELSE Num(17100000 - 52 * logVolume.value - 23000 * complexity
                      - 162 * logLines.value)

\* Math.max(0, x) and Math.min(100, x): NaN if x is NaN
mathMax0(x) == IF x.kind = "finite" THEN Num(Max(0, x.value)) ELSE x
mathMin100(x) ==
    IF x.kind = "finite" THEN Num(Min(100, x.value))
    ELSE IF x.kind = "Infinity" THEN Num(100) ELSE x

\* Math.round(x) of a value in units of 1/171000: the nearest integer
mathRound(x) ==
    IF x.kind = "finite" THEN Num((2 * x.value + 171000) \div 342000) ELSE x

\* src/analyzer/languages/base.ts (no operation of the try block throws)
calculateMaintainabilityIndex(complexity, linesOfCode) ==
    IF linesOfCode = 0 \/ complexity = 0 THEN Num(100)
    ELSE LET halsteadVolume == Max(1, linesOfCode * 2)
             cyclomaticComplexity == Max(1, complexity)
             maintainabilityIndex ==
                mathMax0(indexFormula(mathLog(halsteadVolume), cyclomaticComplexity,
                                      mathLog(linesOfCode)))
         IN  mathMin100(mathMax0(mathRound(maintainabilityIndex)))

\* the BaseAnalyzer of the other copy of the sources (part_005)
calculateMaintainabilityIndexUnguarded(complexity, linesOfCode) ==
    LET halsteadVolume == linesOfCode * 2
        maintainabilityIndex ==
            mathMax0(indexFormula(mathLog(halsteadVolume), complexity,
                                  mathLog(linesOfCode)))
    IN  mathRound(maintainabilityIndex)

\* line counts and complexities, values below 1 and large ones included
LineCounts == (-2..MaxLines) \cup {10000}
Complexities == (-2..MaxComplexity) \cup {1000}

MaintainabilityIndex(complexity, linesOfCode) ==
    /\ call = Null
    /\ call' = [fn |-> "calculateMaintainabilityIndex",
                complexity |-> complexity, linesOfCode |-> linesOfCode]
    /\ ret' = calculateMaintainabilityIndex(complexity, linesOfCode)
    /\ UNCHANGED <<registryVars, batchVars>>

MaintainabilityIndexUnguarded(complexity, linesOfCode) ==
    /\ call = Null
    /\ call' = [fn |-> "calculateMaintainabilityIndexUnguarded",
                complexity |-> complexity, linesOfCode |-> linesOfCode]
    /\ ret' = calculateMaintainabilityIndexUnguarded(complexity, linesOfCode)
    /\ UNCHANGED <<registryVars, batchVars>>

(***************************************************************************)
(* LanguageDetector.detectByContent on the text of a file                   *)
(***************************************************************************)
\* the patterns of config/languages.json, in the order of Object.entries:
\* shebang is the word the shebang pattern looks for ("" without one),
\* keywords the keyword list (hasKeywords: there is one)
LanguagePatterns ==
    << [name |-> "javascript", shebang |-> "node",
        hasKeywords |-> TRUE, keywords |-> <<"function", "const">>],
       [name |-> "python", shebang |-> "python",
        hasKeywords |-> TRUE, keywords |-> <<"DEF", "import">>],
       [name |-> "java", shebang |-> "",
        hasKeywords |-> TRUE, keywords |-> <<"class">>] >>

\* the same languages without keyword lists
ShebangOnlyPatterns ==
    [k \in 1..Len(LanguagePatterns) |->
        [LanguagePatterns[k] EXCEPT !.hasKeywords = FALSE, !.keywords = << >>]]

\* content.toLowerCase()
lowerCased(content) == [i \in 1..Len(content) |-> toLowerCase(content[i])]

\* new RegExp(pattern).test(firstLine)
shebangTest(pattern, firstLine) == \E i \in 1..Len(firstLine) : firstLine[i] = pattern

\* the first language from the k-th on whose shebang pattern matches
RECURSIVE shebangLanguage(_, _, _)
shebangLanguage(languages, firstLine, k) ==
    IF k > Len(languages) THEN NoLanguage
    ELSE IF languages[k].shebang # "" /\ shebangTest(languages[k].shebang, firstLine)
    THEN languages[k].name
    ELSE shebangLanguage(languages, firstLine, k + 1)

\* contentLower.match(new RegExp(keyword.toLowerCase(), 'g')) length, summed
\* over the keywords from the j-th on
RECURSIVE keywordScore(_, _, _)
keywordScore(keywords, contentLower, j) ==
    IF j > Len(keywords) THEN 0
    ELSE countChar(contentLower, toLowerCase(keywords[j]))
         + keywordScore(keywords, contentLower, j + 1)

\* scores: one entry per language with a keyword list, in table order
scoresOf(languages, content) ==
    LET scored == {k \in 1..Len(languages) : languages[k].hasKeywords}
    IN  [k \in scored |-> keywordScore(languages[k].keywords, lowerCased(content), 1)]

\* Math.max(...Object.values(scores)); -Infinity, kept as -1, for no value
maxScoreOf(scores) ==
    IF DOMAIN scores = {} THEN -1
    ELSE CHOOSE m \in {scores[k] : k \in DOMAIN scores} :
            \A k \in DOMAIN scores : scores[k] <= m

\* Object.keys(scores).find(lang => scores[lang] === maxScore)
firstWithScore(languages, scores, maxScore) ==
    LET k == CHOOSE k \in DOMAIN scores :
                /\ scores[k] = maxScore
                /\ \A j \in DOMAIN scores : scores[j] = maxScore => k <= j
    IN  languages[k].name

\* variant: a "#!" line that no shebang pattern matches ends the detection
detectByContentText_shebangOnly(languages, content) ==
    LET firstLine == split(content)[1]
        scores == scoresOf(languages, content)
        maxScore == maxScoreOf(scores)
    IN  IF startsWithPair(firstLine, "#", "!")
        THEN shebangLanguage(languages, firstLine, 1)
        ELSE IF maxScore > 0 THEN firstWithScore(languages, scores, maxScore)
        ELSE NoLanguage

\* detectByContent(content), with this.languages given
detectByContentText(languages, content) ==
    LET firstLine == split(content)[1]
        byShebang == IF startsWithPair(firstLine, "#", "!")
                     THEN shebangLanguage(languages, firstLine, 1)
                     ELSE NoLanguage
        scores == scoresOf(languages, content)
        maxScore == maxScoreOf(scores)
    IN  IF byShebang # NoLanguage THEN byShebang
        ELSE IF maxScore > 0 THEN firstWithScore(languages, scores, maxScore)
        ELSE NoLanguage

MaxContent == 4
ContentAlphabet == {"#", "!", "node", "python", "def", "DEF", "function", "class", "\n"}
ContentTexts == UNION {[1..n -> ContentAlphabet] : n \in 0..MaxContent}
PatternTables == {LanguagePatterns, ShebangOnlyPatterns}

DetectByContent(languages, content) ==
    /\ call = Null
    /\ call' = [fn |-> "detectByContent", languages |-> languages, content |-> content]
    /\ ret' = detectByContentText(languages, content)
    /\ UNCHANGED <<registryVars, batchVars>>

\* one call per run, on an input of the caller's choice
CalcNext ==
    \/ call = Null /\ \E text \in Texts, config \in Configs : CalculateDetailed(text, config)
    \/ call = Null /\ \E languages \in PatternTables, content \in ContentTexts :
                        DetectByContent(languages, content)
    \/ call = Null /\ \E text \in Texts, config \in Configs : Calculate(text, config)
    \/ call = Null /\ \E text \in JavaTexts : JavaCyclomatic(text)
    \/ call = Null /\ \E nodes \in NodeLists : JsCyclomatic(nodes)
    \/ call = Null /\ \E file \in DetectFiles, content \in DetectContents :
                        Detect(file, content)
    \/ call = Null /\ \E complexity \in Complexities, linesOfCode \in LineCounts :
                        MaintainabilityIndex(complexity, linesOfCode)
    \/ call = Null /\ \E complexity \in Complexities, linesOfCode \in LineCounts :
                        MaintainabilityIndexUnguarded(complexity, linesOfCode)

SpecCalc == Init /\ [][CalcNext]_vars

Called(fn) == call # Null /\ call.fn = fn

(***************************************************************************)
(* The scan of one source text                                              *)
(***************************************************************************)
\* the lines the scanned texts are made of
BlankLine == << >>
SpaceLine == <<" ">>
CommentLine == <<"/", "/", " ", "x">>
FunctionOpen == <<"function", " ", "f", "(", ")", " ", "{">>
BlockClose == <<"}">>
ArrowFunction == <<"const", " ", "f", " ", "=", " ", "x", " ", "=", ">", " ", "x", ";">>
ClassOpen == <<"class", " ", "K", " ", "{">>
IfOpen == <<" ", "if", " ", "(", "x", ")", " ", "{">>
ForLine == <<"for", " ", "(", ";", ";", ")", " ", "x", ";">>
TryOpen == <<"try", " ", "{">>
Statement == <<"x", ";">>
MethodOpen == <<"public", " ", "int", " ", "m", "(", ")", " ", "{">>
ReturnCall == <<"return", " ", "g", "(", ")", ";">>
LineKinds ==
    {BlankLine, SpaceLine, CommentLine, FunctionOpen, BlockClose, ArrowFunction,
     ClassOpen, IfOpen, ForLine, TryOpen, Statement, MethodOpen, ReturnCall}

\* lines.join('\n')
RECURSIVE joinFrom(_, _)
joinFrom(lines, i) ==
    IF i > Len(lines) THEN << >>
    ELSE (IF i > 1 THEN <<"\n">> ELSE << >>) \o lines[i] \o joinFrom(lines, i + 1)
join(lines) == joinFrom(lines, 1)

\* every text of up to MaxScanLines such lines, and every blank text
MaxScanLines == 3
ScanTexts ==
    {join(lines) : lines \in UNION {[1..n -> LineKinds] : n \in 0..MaxScanLines}}
    \cup UNION {[1..n -> Whitespace] : n \in 0..MaxText}

\* all flags left out, and all flags turned off
ScanConfigs == {EmptyMap, [flag \in Flags |-> FALSE]}

\* rounds of the parser loop followed after the line cursor stopped moving
MaxStalled == 2

\* analyzer.parse(content) is entered
Parse(code) ==
    /\ call = Null
    /\ call' = [fn |-> "simpleParser", code |-> code, lines |-> split(code),
                currentLine |-> 0, body |-> << >>]
    /\ ret' = Null
    /\ UNCHANGED <<registryVars, batchVars>>

\* one round of the while loop of simpleParser
ParseLine ==
    /\ Called("simpleParser")
    /\ ret = Null
    /\ call.currentLine < Len(call.lines)
    /\ Len(call.body) < Len(call.lines) + MaxStalled
    /\ \E parsed \in {parseLine(call.lines, call.currentLine)} :
            call' = [call EXCEPT !.currentLine = parsed.endLine,
                                 !.body = IF parsed.node = NoNode THEN @
                                          ELSE Append(@, parsed.node)]
    /\ UNCHANGED <<ret, registryVars, batchVars>>

\* the loop is left, the AST is returned, and the scanner's extractors and
\* counters are applied to it
ScanDone ==
    /\ Called("simpleParser")
    /\ ret = Null
    /\ call.currentLine >= Len(call.lines)
    /\ ret' = [ast |-> call.body,
               functions |-> jsExtractFunctions(call.body),
               classes |-> jsExtractClasses(call.body),
               cyclomatic |-> jsCyclomaticComplexity(traverse(call.body)),
               cognitive |-> jsCognitiveComplexity(call.body)]
    /\ UNCHANGED <<call, registryVars, batchVars>>

\* BaseAnalyzer.calculateCognitiveComplexity of base.ts on a text
CalculateCognitive(text) ==
    /\ call = Null
    /\ call' = [fn |-> "calculateCognitiveComplexity", content |-> text]
    /\ ret' = calculateCognitiveComplexity(text)
    /\ UNCHANGED <<registryVars, batchVars>>

\* JavaAnalyzer.extractFunctions of java.ts on a text
ExtractFunctions(text) ==
    /\ call = Null
    /\ call' = [fn |-> "extractFunctions", content |-> text]
    /\ ret' = extractFunctions(text)
    /\ UNCHANGED <<registryVars, batchVars>>

ScanNext ==
    \/ call = Null /\ \E code \in ScanTexts : Parse(code)
    \/ ParseLine
    \/ ScanDone
    \/ call = Null /\ \E text \in ScanTexts, config \in ScanConfigs : Calculate(text, config)
    \/ call = Null /\ \E text \in ScanTexts : CalculateCognitive(text)
    \/ call = Null /\ \E text \in ScanTexts : ExtractFunctions(text)

SpecScan == Init /\ [][ScanNext]_vars

(***************************************************************************)
(* The cognitive scores                                                     *)
(***************************************************************************)
\* decision constructs on a line of their own, and the lines around them
IfLine == <<"if", " ", "(", "x", ")", " ", "x", ";">>
WhileLine == <<"while", " ", "(", "x", ")", " ", "x", ";">>
SwitchLine == <<"switch", " ", "(", "x", ")", " ", "{", "}">>
CatchLine == <<"catch", " ", "(", "x", ")", " ", "{", "}">>
TernaryLine == <<"x", " ", "?", " ", "x", " ", ":", " ", "x", ";">>
DoOpen == <<"do", " ", "{">>
DoClose == <<"}", " ", "while", " ", "(", "x", ")", ";">>
\* if, for, while, switch, catch and ternary on one line, and a do-while
\* loop on two
Constructs ==
    {<<IfLine>>, <<ForLine>>, <<WhileLine>>, <<SwitchLine>>, <<CatchLine>>,
     <<TernaryLine>>, <<DoOpen, DoClose>>}
BreakLine == <<"break", ";">>
BreakLabelLine == <<"break", " ", "label", ";">>
ContinueLabelLine == <<"continue", " ", "label", ";">>
JumpLines == {BreakLine, BreakLabelLine, ContinueLabelLine}
IfHead == <<"if", " ", "(", "x", ")">>
BraceLine == <<"{">>
ForOpen == <<"for", " ", "(", "x", ")", " ", "{">>
WhileOpen == <<"while", " ", "(", "x", ")", " ", "{">>
FunctionHead == <<"function", " ", "f", " ", "{">>

\* n copies of a line
Copies(n, line) == [k \in 1..n |-> line]

\* lines inside n enclosing if blocks
Nest(n, lines) == join(Copies(n, IfOpen) \o lines \o Copies(n, BlockClose))

\* function f { if (...) { for (...) { while (...) { } } } }
NestedLoops ==
    join(<<FunctionHead, IfOpen, ForOpen, WhileOpen, BlockClose, BlockClose,
           BlockClose, BlockClose>>)

\* the same function written on one line
RECURSIVE spaced(_, _)
spaced(lines, i) ==
    IF i > Len(lines) THEN << >>
    ELSE (IF i > 1 THEN <<" ">> ELSE << >>) \o trim(lines[i]) \o spaced(lines, i + 1)
NestedLoopsOneLine == spaced(split(NestedLoops), 1)

\* deepest level at which a line is placed, and longest text of free lines
MaxNesting == 2
MaxCognitiveLines == 3
CognitiveLineKinds ==
    {IfOpen, BlockClose, IfLine, IfHead, BraceLine, TernaryLine, Statement,
     FunctionOpen, CommentLine}
CognitiveTexts ==
    {Nest(n, lines) : n \in 0..(MaxNesting + 1),
                      lines \in Constructs \cup {<<line>> : line \in JumpLines}
                                \cup {<< >>}}
    \cup {join(lines) :
            lines \in UNION {[1..n -> CognitiveLineKinds] : n \in 0..MaxCognitiveLines}}
    \cup {NestedLoops, NestedLoopsOneLine}

\* the nodes handed to the cognitive visitor: every type it tells apart,
\* under every chain of up to MaxNesting + 1 enclosing nodes
CognitiveTypes ==
    {"IfStatement", "ConditionalExpression", "SwitchStatement", "ForStatement",
     "ForInStatement", "ForOfStatement", "WhileStatement", "DoWhileStatement",
     "CatchClause", "LogicalExpression", "BreakStatement", "ContinueStatement",
     "ExpressionStatement"}
EnclosingTypes == {"IfStatement", "BlockStatement", "FunctionDeclaration"}
AncestorChains ==
    {<<"Program">> \o chain :
        chain \in UNION {[1..n -> EnclosingTypes] : n \in 0..(MaxNesting + 1)}}
CognitiveNodes ==
    {[type |-> t, operator |-> o, label |-> l, ancestors |-> a] :
        t \in CognitiveTypes, o \in {"", "&&", "??"}, l \in BOOLEAN,
        a \in AncestorChains}
CognitiveNodeLists ==
    {<< >>} \cup {<<n>> : n \in CognitiveNodes}
    \cup {<<CognitiveNode("IfStatement", <<"Program">>), n>> : n \in CognitiveNodes}

\* calculateCognitiveComplexity of base.ts is entered: the early return on
\* empty content, or the loop is reached
CognitiveScan(text) ==
    /\ call = Null
    /\ call' = [fn |-> "calculateCognitiveComplexity", content |-> text,
                lines |-> split(text), i |-> 0, complexity |-> 0,
                nestingLevel |-> 0, inMultilineComment |-> FALSE,
                pc |-> IF text = << >> THEN "returned" ELSE "loop"]
    /\ ret' = IF text = << >> THEN 0 ELSE ret
    /\ UNCHANGED <<registryVars, batchVars>>

\* one round of its loop over the lines
CognitiveLine ==
    /\ Called("calculateCognitiveComplexity")
    /\ "pc" \in DOMAIN call /\ call.pc = "loop"
    /\ call.i < Len(call.lines)
    /\ \E after \in {cognitiveLine(call.lines, call.i + 1, call.complexity,
                                    call.nestingLevel, call.inMultilineComment)} :
            call' = [call EXCEPT !.i = @ + 1,
                                 !.complexity = after.complexity,
                                 !.nestingLevel = after.nestingLevel,
                                 !.inMultilineComment = after.inMultilineComment]
    /\ UNCHANGED <<ret, registryVars, batchVars>>

\* the loop is left and the score returned
CognitiveReturn ==
    /\ Called("calculateCognitiveComplexity")
    /\ "pc" \in DOMAIN call /\ call.pc = "loop"
    /\ call.i >= Len(call.lines)
    /\ call' = [call EXCEPT !.pc = "returned"]
    /\ ret' = Max(0, call.complexity)
    /\ UNCHANGED <<registryVars, batchVars>>

\* JavaAnalyzer.calculateCognitiveComplexity of the Java scanner on a text
JavaCognitive(text) ==
    /\ call = Null
    /\ call' = [fn |-> "javaCognitiveComplexity", content |-> text]
    /\ ret' = javaCognitiveComplexity(text)
    /\ UNCHANGED <<registryVars, batchVars>>

\* JavaAnalyzer.calculateNestingDepth on a text
JavaNestingDepth(text) ==
    /\ call = Null
    /\ call' = [fn |-> "javaNestingDepth", content |-> text]
    /\ ret' = javaNestingDepth(text)
    /\ UNCHANGED <<registryVars, batchVars>>

\* JavaScriptAnalyzer.calculateCognitiveComplexity over the nodes visited
JsCognitive(nodes) ==
    /\ call = Null
    /\ call' = [fn |-> "jsCognitiveComplexity", nodes |-> nodes]
    /\ ret' = jsCognitiveVisit(nodes)
    /\ UNCHANGED <<registryVars, batchVars>>

CognitiveNext ==
    \/ call = Null /\ \E text \in CognitiveTexts : CognitiveScan(text)
    \/ CognitiveLine
    \/ CognitiveReturn
    \/ call = Null /\ \E text \in CognitiveTexts : JavaCognitive(text)
    \/ call = Null /\ \E text \in CognitiveTexts : JavaNestingDepth(text)
    \/ call = Null /\ \E nodes \in CognitiveNodeLists : JsCognitive(nodes)

SpecCognitive == Init /\ [][CognitiveNext]_vars

\* the base.ts scan of a text has returned
Scanned == Called("calculateCognitiveComplexity") /\ call.pc = "returned"

\* C13: for every text and every setting of the three flags, the
\* cyclomatic score is an integer that is at least 1.
C13_CyclomaticAtLeastOne ==
    (Called("calculate") \/ Called("javaCyclomaticComplexity")
        \/ Called("jsCyclomaticComplexity"))
        => (ret \in Int /\ ret >= 1)

\* a text with a ternary scored with the ternary flag off, giving 1
C13_Witness ==
    /\ Called("calculate")
    /\ ~mergeConfig(call.config).countTernary
    /\ countChar(call.content, "?") > 0
    /\ ret = 1

\* the languages whose extension table / MIME table holds the file's
ExtensionMatches(file) ==
    {n \in LanguageNames : toLowerCase(file.ext) \in LanguageNamed(n).extensions}
MimeMatches(file) ==
    {n \in LanguageNames : file.mime # "" /\ file.mime \in LanguageNamed(n).mime}

\* C14: detect returns the extension-table match when there is one;
\* otherwise the MIME-table match when there is one; otherwise the result of
\* the content heuristic when content is given; otherwise none. A stage is
\* consulted only when every earlier stage found nothing.
C14_DetectOrder ==
    Called("detectLanguage") =>
        LET file == call.file
            content == call.content
        IN  /\ IF ExtensionMatches(file) # {}
               THEN ret.value \in ExtensionMatches(file) /\ ret.stages = <<"extension">>
               ELSE IF MimeMatches(file) # {}
               THEN ret.value \in MimeMatches(file)
                    /\ ret.stages = <<"extension", "mime">>
               ELSE IF content # Null /\ ~content.empty
               THEN ret.value = detectByContent(content)
                    /\ ret.stages = <<"extension", "mime", "content">>
               ELSE ret.value = NoLanguage /\ ret.stages = <<"extension", "mime">>
            /\ content # Null => ret.value = detectLanguage(file, content)

\* a path whose extension is in no extension table but whose MIME type is
\* in one, with content that would have named another language
C14_Witness ==
    /\ Called("detectLanguage")
    /\ ExtensionMatches(call.file) = {}
    /\ ret.value = "javascript"
    /\ ret.stages = <<"extension", "mime">>
    /\ call.content # Null
    /\ detectByContent(call.content) = "python"

\* C15: for every integer line count and complexity, values below 1
\* included, the maintainability index is an integer in [0,100], never NaN
\* or infinite, and a line count or complexity of 0 gives 100.
C15_MaintainabilityInRange ==
    (Called("calculateMaintainabilityIndex")
        \/ Called("calculateMaintainabilityIndexUnguarded"))
        => /\ ret.kind = "finite"
           /\ ret.value \in 0..100
           /\ (call.linesOfCode = 0 \/ call.complexity = 0) => ret.value = 100

\* C16: for content that is empty or only whitespace, the cyclomatic score
\* is 1, the cognitive score is 0, the function list is empty and the class
\* list is empty.
C16_BlankContent ==
    /\ Called("calculate") /\ isBlank(call.content) => ret = 1
    /\ Called("calculateCognitiveComplexity") /\ isBlank(call.content) => ret = 0
    /\ Called("extractFunctions") /\ isBlank(call.content) => ret = << >>
    /\ Called("simpleParser") /\ ret # Null /\ isBlank(call.code)
        => /\ ret.cyclomatic = 1
           /\ ret.cognitive = 0
           /\ ret.functions = << >>
           /\ ret.classes = << >>

\* a scan of several whitespace-only lines has returned
C16_Witness ==
    /\ Called("simpleParser") /\ ret # Null
    /\ isBlank(call.code) /\ Len(call.lines) > 1
    /\ \E i \in DOMAIN call.lines : call.lines[i] # << >>

\* C17: every round of the parser loop moves the line cursor strictly
\* forward, so the scan of a text ends after finitely many rounds.
C17_CursorMovesForward ==
    [][Called("simpleParser") /\ call' # call
        => call'.currentLine > call.currentLine]_vars

\* a step of one analysis of the running wave
InFlightStep ==
    /\ phase = "running" /\ phase' = "running"
    /\ chunkIdx' = chunkIdx
    /\ calls' # calls

\* the step in which the orchestrator folds the results of a wave
FoldStep ==
    /\ phase = "running"
    /\ chunkIdx' # chunkIdx \/ phase' = "returned"

RECURSIVE SumFrom(_, _)
SumFrom(numbers, k) ==
    IF k > Len(numbers) THEN 0 ELSE numbers[k] + SumFrom(numbers, k + 1)
Sum(numbers) == SumFrom(numbers, 1)

\* the settled results of the wave, and what a successful one adds to a
\* counter
WaveResults == [k \in 1..Len(calls) |-> calls[k].promise.value]
Succeeded == {k \in 1..Len(calls) : ~hasError(WaveResults[k])}
Contribution(result, counter) ==
    CASE counter = "analyzedFiles" -> 1
      [] counter = "totalLines" -> result.lines
      [] counter = "totalSize" -> result.size
      [] counter = "cyclomatic" -> result.complexity.cyclomatic.total
      [] counter = "cognitive" -> result.complexity.cognitive.total
WaveSum(counter) ==
    Sum([k \in 1..Len(calls) |->
            IF k \in Succeeded THEN Contribution(WaveResults[k], counter) ELSE 0])
WaveMax(counter, before) ==
    LET scores == {Contribution(WaveResults[k], counter) : k \in Succeeded} \cup {before}
    IN  CHOOSE m \in scores : \A score \in scores : score <= m
WaveMin(counter, before) ==
    LET scores == {Contribution(WaveResults[k], counter) : k \in Succeeded} \cup {before}
    IN  CHOOSE m \in scores : \A score \in scores : m <= score

\* the running minimum as the report shows it: 0 once the batch has
\* returned without any score
ShownMin(min) == IF phase' = "returned" /\ min = Infinity THEN 0 ELSE min

\* every counter after the fold is the counter before it plus what each
\* settled result of the wave contributes
NoUpdateLost ==
    /\ \A k \in 1..Len(calls) : calls[k].promise.state = "resolved"
    /\ Len(results'.files) = Len(results.files) + Len(calls)
    /\ results'.summary.analyzedFiles =
            results.summary.analyzedFiles + WaveSum("analyzedFiles")
    /\ results'.summary.errorFiles =
            results.summary.errorFiles + Len(calls) - WaveSum("analyzedFiles")
    /\ results'.summary.totalLines = results.summary.totalLines + WaveSum("totalLines")
    /\ results'.summary.totalSize = results.summary.totalSize + WaveSum("totalSize")
    /\ \A metric \in {"cyclomatic", "cognitive"} :
            /\ results'.aggregated.complexity[metric].total =
                    results.aggregated.complexity[metric].total + WaveSum(metric)
            /\ results'.aggregated.complexity[metric].max =
                    WaveMax(metric, results.aggregated.complexity[metric].max)
            /\ results'.aggregated.complexity[metric].min =
                    ShownMin(WaveMin(metric, results.aggregated.complexity[metric].min))

\* C18 as stated: the aggregate is written only by the fold, over settled
\* results; a step of an in-flight analysis touches neither the aggregate
\* nor any state shared with other analyses; the fold loses no update.
C18_AnalysesShareNothing ==
    [][/\ results' # results => phase = "idle" \/ FoldStep
       /\ InFlightStep => results' = results /\ registry' = registry
       /\ FoldStep => NoUpdateLost]_vars

\* C18, amended: the aggregate is written only by the fold, over settled
\* results; a step of an in-flight analysis never touches the aggregate,
\* and the one state it shares with other analyses is the scanner registry,
\* which its lookup initializes if no lookup did before; the fold loses no
\* update.
C18_SingleWriterFold ==
    [][/\ results' # results => phase = "idle" \/ FoldStep
       /\ InFlightStep => /\ results' = results
                          /\ registry' \in {registry, initialize(registry)}
       /\ FoldStep => NoUpdateLost]_vars

\* a batch has returned in which analyses of one wave succeeded and failed
C18_Witness ==
    /\ phase = "returned"
    /\ results.summary.analyzedFiles >= 2
    /\ results.summary.errorFiles >= 1
    /\ registry # HostRegistry

\* the positions at which a keyword stands as a whole word
WordOccurrences(text, word) ==
    {i \in DOMAIN text :
        /\ text[i] = word
        /\ i = 1 \/ ~IsWord(text[i - 1])
        /\ i = Len(text) \/ ~IsWord(text[i + 1])}

\* the positions of an `else` followed by whitespace and an `if`
ElseIfOccurrences(text) ==
    {i \in WordOccurrences(text, "else") :
        \E j \in WordOccurrences(text, "if") :
            /\ j > i + 1
            /\ \A h \in (i + 1)..(j - 1) : text[h] \in Whitespace}

\* the positions at which a doubled character is matched: each run of the
\* character is cut into pairs from its start
PairOccurrences(text, c) ==
    {i \in 1..(Len(text) - 1) :
        /\ text[i] = c /\ text[i + 1] = c
        /\ \E start \in 1..i :
                /\ start = 1 \/ text[start - 1] # c
                /\ \A h \in start..i : text[h] = c
                /\ (i - start) % 2 = 0}

\* what each flag switches: the number of matches of its category
CategoryCount(text, flag) ==
    CASE flag = "countCaseStatements" -> Cardinality(WordOccurrences(text, "case"))
      [] flag = "countLogicalOperators" ->
            Cardinality(PairOccurrences(text, "&")) + Cardinality(PairOccurrences(text, "|"))
      [] flag = "countTernary" -> Cardinality({i \in DOMAIN text : text[i] = "?"})

\* a flag is on when it is given as true or not given
FlagOn(config, flag) == flag \notin DOMAIN config \/ config[flag]

\* the configuration with one more flag given
WithFlag(config, flag, value) ==
    [f \in DOMAIN config \cup {flag} |-> IF f = flag THEN value ELSE config[f]]

\* C19: calculate(text) = 1 + (#if + #else-if + #while + #for + #do + #switch
\* + #catch) + #case if countCaseStatements + (#&& + #||) if
\* countLogicalOperators + #? if countTernary, a flag that is not given
\* being on; turning one flag off lowers the score by exactly the count of
\* that flag's category.
C19_ScoreFormula ==
    Called("calculate") =>
        /\ ret = 1 + Cardinality(WordOccurrences(call.content, "if"))
                   + Cardinality(ElseIfOccurrences(call.content))
                   + Cardinality(WordOccurrences(call.content, "while"))
                   + Cardinality(WordOccurrences(call.content, "for"))
                   + Cardinality(WordOccurrences(call.content, "do"))
                   + Cardinality(WordOccurrences(call.content, "switch"))
                   + Cardinality(WordOccurrences(call.content, "catch"))
                   + Sum([k \in 1..3 |->
                            LET flag == <<"countCaseStatements", "countLogicalOperators",
                                          "countTernary">>[k]
                            IN  IF FlagOn(call.config, flag)
                                THEN CategoryCount(call.content, flag) ELSE 0])
        /\ \A flag \in Flags :
                calculate(call.content, WithFlag(call.config, flag, TRUE))
                - calculate(call.content, WithFlag(call.config, flag, FALSE))
                    = CategoryCount(call.content, flag)

\* a text with matches of every category scored with one flag given as off
\* and the others not given
C19_Witness ==
    /\ Called("calculate")
    /\ DOMAIN call.config = {"countLogicalOperators"}
    /\ ~call.config.countLogicalOperators
    /\ \A flag \in Flags : CategoryCount(call.content, flag) > 0
    /\ ElseIfOccurrences(call.content) # {}
    /\ ret > 1

\* C20: `if (x)` alone scores 2, and a chain of one if and k else-if
\* branches scores 2 + k, with or without a plain else at its end (so
\* `if (x) {} else if (x) {} else {}` scores 3).
C20_IfChainScores ==
    (Called("calculate") \/ Called("javaCyclomaticComplexity")) =>
        /\ call.content = IfAlone => ret = 2
        /\ \A k \in 0..MaxChain, plainElse \in BOOLEAN :
                call.content = IfChain(k, plainElse) => ret = 2 + k

\* what a construct adds to the score of each text scanner when it stands
\* inside n enclosing blocks
ContributionTs(n, lines) ==
    calculateCognitiveComplexity(Nest(n, lines))
    - calculateCognitiveComplexity(Nest(n, << >>))
ContributionJava(n, lines) ==
    javaCognitiveComplexity(Nest(n, lines)) - javaCognitiveComplexity(Nest(n, << >>))

\* the node one level further out: its innermost enclosing node removed
Outward(n) == [n EXCEPT !.ancestors = SubSeq(@, 1, Len(@) - 1)]
DecisionTypes ==
    {"IfStatement", "ConditionalExpression", "SwitchStatement", "ForStatement",
     "ForInStatement", "ForOfStatement", "WhileStatement", "DoWhileStatement",
     "CatchClause"}

\* C21: a decision construct (if, loop, switch, catch, ternary) placed one
\* nesting level deeper, all else equal, contributes exactly 1 more to the
\* cognitive score, at every level: in the line scanner of base.ts, in the
\* Java scanner, and in the node visitor of javascript.js.
C21_NestingAddsOne ==
    /\ \A n \in 0..MaxNesting, construct \in Constructs :
            /\ Scanned /\ call.content = Nest(n + 1, construct)
                => ret - calculateCognitiveComplexity(Nest(n + 1, << >>))
                        = ContributionTs(n, construct) + 1
            /\ Called("javaCognitiveComplexity") /\ call.content = Nest(n + 1, construct)
                => ret - javaCognitiveComplexity(Nest(n + 1, << >>))
                        = ContributionJava(n, construct) + 1
    /\ Called("jsCognitiveComplexity") /\ Len(call.nodes) = 1
        /\ call.nodes[1].type \in DecisionTypes
        /\ Len(call.nodes[1].ancestors) > 1
        /\ isNestingNode(call.nodes[1].ancestors[Len(call.nodes[1].ancestors)])
        => ret = jsCognitiveVisit(<<Outward(call.nodes[1])>>) + 1

\* C22: for a function whose body is an if holding a for holding a while,
\* the cognitive score is (1+0) + (1+1) + (1+2) = 6 and the nesting depth
\* is 3: the brace of the function is no nesting level.
C22_NestedLoopsScore ==
    /\ (Scanned \/ Called("javaCognitiveComplexity"))
        /\ call.content \in {NestedLoops, NestedLoopsOneLine}
        => ret = 6
    /\ Called("javaNestingDepth") /\ call.content \in {NestedLoops, NestedLoopsOneLine}
        => ret = 3

\* C23: a labeled break or continue adds exactly 1 to the cognitive score,
\* at every nesting level.
C23_LabeledJumpAddsOne ==
    /\ \A n \in 0..(MaxNesting + 1), line \in {BreakLabelLine, ContinueLabelLine} :
            Scanned /\ call.content = Nest(n, <<line>>)
                => ret - calculateCognitiveComplexity(Nest(n, << >>)) = 1
    /\ Called("jsCognitiveComplexity") /\ Len(call.nodes) = 1
        /\ call.nodes[1].type \in {"BreakStatement", "ContinueStatement"}
        /\ call.nodes[1].label
        => ret = 1

\* a round of the loop of the base.ts scan
LineStep ==
    /\ Called("calculateCognitiveComplexity")
    /\ call.pc = "loop" /\ call'.pc = "loop"
    /\ call'.i = call.i + 1

\* the code of the line the round is at: nothing for a comment line, else
\* the line up to its `//`
CodeOfLine ==
    LET raw == trim(call.lines[call.i + 1])
    IN  IF call.inMultilineComment \/ includesPair(raw, "/", "*")
           \/ includesPair(raw, "*", "/") \/ startsWithPair(raw, "/", "/")
           \/ (raw # << >> /\ raw[1] = "*")
        THEN << >>
        ELSE trim(beforeLineComment(raw))

\* the line introduces a construct and a brace opens on it or at the start
\* of the following line
IntroducesBlock ==
    LET line == CodeOfLine
        next == IF call.i + 2 <= Len(call.lines)
                THEN trim(call.lines[call.i + 2]) ELSE << >>
    IN  /\ countWords(line, {"if", "for", "while", "do", "switch", "catch", "else"}) > 0
        /\ countChar(line, "{") > 0 \/ (next # << >> /\ next[1] = "{")

\* C24: at every step of the cognitive scan the nesting counter is >= 0;
\* in a round it rises by one only on a construct-introducing line that
\* opens a brace, and falls by the number of closing braces of the line,
\* never below 0; the nesting depth reported for a text is never negative.
C24_NestingNeverNegative ==
    [][/\ call' # Null /\ call'.fn = "calculateCognitiveComplexity"
            => call'.nestingLevel >= 0
       /\ call' # Null /\ call'.fn = "javaNestingDepth" => ret' >= 0
       /\ LineStep =>
            \E rise \in {0, 1} :
                /\ rise = 1 => IntroducesBlock
                /\ call'.nestingLevel =
                        Max(0, call.nestingLevel + rise - countChar(CodeOfLine, "}"))]_vars

\* the counter is at 0 after a line with a closing brace that no opening
\* brace went before
C24_Witness ==
    /\ Called("calculateCognitiveComplexity")
    /\ call.pc = "loop" /\ call.i > 0
    /\ countChar(call.lines[call.i], "}") > 0
    /\ \A k \in 1..call.i : countChar(call.lines[k], "{") = 0
    /\ call.nestingLevel = 0

\* the first line of the content handed to detectByContent
FirstLine == split(call.content)[1]

\* the languages whose shebang pattern matches the first line
ShebangMatches ==
    {call.languages[k].name : k \in {j \in 1..Len(call.languages) :
        /\ call.languages[j].shebang # ""
        /\ shebangTest(call.languages[j].shebang, FirstLine)}}

\* occurrences of the keywords of the k-th language in the lower-cased
\* content
KeywordCount(k) ==
    LET lower == lowerCased(call.content)
        keywords == call.languages[k].keywords
    IN  Cardinality({<<i, j>> \in (1..Len(lower)) \X (1..Len(keywords)) :
                        lower[i] = toLowerCase(keywords[j])})

\* the languages with the highest keyword count, when it is not 0
HighestCount ==
    {call.languages[k].name : k \in {j \in 1..Len(call.languages) :
        /\ call.languages[j].hasKeywords
        /\ KeywordCount(j) > 0
        /\ \A o \in 1..Len(call.languages) :
                call.languages[o].hasKeywords => KeywordCount(o) <= KeywordCount(j)}}

\* the keyword rule: a language with the highest nonzero count, none when
\* there is no such language
ByKeywords ==
    IF HighestCount = {} THEN ret = NoLanguage ELSE ret \in HighestCount

\* C25: when the first line begins with '#!', the result is the language
\* whose shebang pattern matches that line; otherwise it is the language
\* with the highest keyword count in the lower-cased content when that
\* count is not 0, and none when every language scores 0 or no language
\* has a keyword set.
C25_ShebangElseKeywords ==
    Called("detectByContent") =>
        IF startsWithPair(FirstLine, "#", "!")
        THEN IF ShebangMatches = {} THEN ret = NoLanguage ELSE ret \in ShebangMatches
        ELSE ByKeywords

\* C25, amended: the keyword rule also decides when the first line begins
\* with '#!' and no shebang pattern matches it; among several matches the
\* first language of the table wins.
C25_ShebangThenKeywords ==
    Called("detectByContent") =>
        LET byShebang == startsWithPair(FirstLine, "#", "!") /\ ShebangMatches # {}
        IN  /\ IF byShebang THEN ret \in ShebangMatches ELSE ByKeywords
            /\ \A k \in 1..Len(call.languages) :
                    call.languages[k].name = ret =>
                        \A j \in 1..(k - 1) :
                            call.languages[j].name \notin
                                (IF byShebang THEN ShebangMatches ELSE HighestCount)

\* a '#!' line no pattern matches, followed by a keyword
C25_Witness ==
    /\ Called("detectByContent")
    /\ startsWithPair(FirstLine, "#", "!")
    /\ ShebangMatches = {}
    /\ ret = "python"

\* no closing brace on the lines from the start-th (counted from 1) on
NeverClosed(lines, start) ==
    \A j \in start..Len(lines) : countChar(lines[j], "}") = 0

\* C26: a function, method or class declaration whose closing brace is
\* never found is extracted with the last line of the file as its end line.
C26_UnclosedEndsAtLastLine ==
    /\ Called("extractFunctions") =>
            \A k \in 1..Len(ret) :
                NeverClosed(split(call.content), ret[k].startLine)
                    => ret[k].endLine = Len(split(call.content))
    /\ Called("simpleParser") =>
            \A k \in 1..Len(call.body) :
                /\ call.body[k].type \in {"FunctionDeclaration", "ClassDeclaration"}
                /\ NeverClosed(call.lines, call.body[k].start)
                => call.body[k].end = Len(call.lines)

\* the braces open in front of a line (counted from 1)
DepthAt(lines, start) ==
    Sum([j \in 1..(start - 1) |-> countChar(lines[j], "{") - countChar(lines[j], "}")])

\* the line ranges <<start, end>> are inside the text, those at one nesting
\* level are disjoint, and one that starts inside a range at a lower level
\* ends inside it
WellPlaced(lines, ranges) ==
    /\ \A r \in ranges : 1 <= r[1] /\ r[1] <= r[2] /\ r[2] <= Len(lines)
    /\ \A a, b \in ranges :
            a # b /\ DepthAt(lines, a[1]) = DepthAt(lines, b[1])
                => a[2] < b[1] \/ b[2] < a[1]
    /\ \A a, b \in ranges :
            /\ DepthAt(lines, a[1]) < DepthAt(lines, b[1])
            /\ a[1] < b[1] /\ b[1] <= a[2]
            => b[2] <= a[2]

\* C27: every extracted entity has 1 <= start line <= end line <= number
\* of lines; the ranges of two entities at one nesting level never
\* overlap, and the range of a nested entity lies within its parent's.
C27_EntityRanges ==
    /\ Called("extractFunctions") =>
            WellPlaced(split(call.content),
                       {<<ret[k].startLine, ret[k].endLine>> : k \in 1..Len(ret)})
    /\ Called("simpleParser") /\ ret # Null =>
            WellPlaced(call.lines,
                       {<<ret.functions[k].startLine, ret.functions[k].endLine>> :
                            k \in 1..Len(ret.functions)}
                       \cup {<<ret.classes[k].startLine, ret.classes[k].endLine>> :
                            k \in 1..Len(ret.classes)})

\* the keys the registered entries list in a field (extensions or
\* aliases), lower-cased as the tables keep them
ListedKeys(reg, field) ==
    UNION {{toLowerCase(k) : k \in reg.analyzers[id][field]} : id \in DOMAIN reg.analyzers}

\* a table of the registry agrees with the entries: its keys are the keys
\* listed, and each maps to a registered id whose entry lists it
TableAgrees(reg, field) ==
    /\ DOMAIN reg[field] = ListedKeys(reg, field)
    /\ \A k \in DOMAIN reg[field] :
            /\ reg[field][k] \in DOMAIN reg.analyzers
            /\ k \in {toLowerCase(l) : l \in reg.analyzers[reg[field][k]][field]}

\* the lookups of a registered language: by its id, its aliases and its
\* extensions
LookupsOf(reg, id) ==
    [names |-> [n \in {id} \cup reg.analyzers[id].aliases |-> getAnalyzer(reg, n).value],
     extensions |-> [e \in reg.analyzers[id].extensions |->
                        getAnalyzerByExtension(reg, e).value]]

\* unregister of a registered language leaves the lookups of every other
\* registered language as they were
UnregisterLeavesOthers ==
    \A name \in RegistryNames :
        Unregister(name) =>
            \A id \in DOMAIN registry.analyzers \ {toLowerCase(name)} :
                LookupsOf(registry', id) = LookupsOf(registry, id)

\* C28: after any sequence of register, unregister, clear and lookup the
\* keys of the extension (alias) table are exactly the extensions (aliases)
\* listed by the registered entries, each key maps to a registered id whose
\* entry lists it, isLanguageSupported and isExtensionSupported are true
\* exactly when the lookup returns a scanner entry, and unregistering one
\* language leaves the lookups of every other registered language
\* unchanged.
C28_TablesAgree ==
    /\ [](/\ TableAgrees(registry, "extensions")
          /\ TableAgrees(registry, "aliases")
          /\ \A language \in LookupNames :
                isLanguageSupported(registry, language)
                    <=> Truthy(getAnalyzer(registry, language).value)
          /\ \A extension \in LookupExtensions :
                isExtensionSupported(registry, extension)
                    <=> Truthy(getAnalyzerByExtension(registry, extension).value))
    /\ [][UnregisterLeavesOthers]_vars

\* the slices from the k-th on, one after the other
RECURSIVE Concatenation(_, _)
Concatenation(slices, k) ==
    IF k > Len(slices) THEN << >> ELSE slices[k] \o Concatenation(slices, k + 1)

\* the paths of the waves that were folded into the report
FoldedPaths ==
    Concatenation(SubSeq(chunks, 1, IF phase = "returned" THEN Len(chunks) ELSE chunkIdx - 1), 1)

\* C29: the files list of the batch report has one entry per input path, in
\* input order, whatever the batch size and the order in which the analyses
\* of a wave complete; the waves are consecutive slices of at most K paths
\* whose concatenation is the input.
C29_FilesInInputOrder ==
    phase \in {"running", "returned"} =>
        /\ Concatenation(chunks, 1) = filePaths
        /\ \A c \in 1..Len(chunks) :
                1 <= Len(chunks[c]) /\ Len(chunks[c]) <= Min(maxConcurrency, Len(filePaths))
        /\ Len(results.files) = Len(FoldedPaths)
        /\ \A k \in 1..Len(results.files) :
                /\ results.files[k].file = filePaths[k]
                /\ hasError(results.files[k]) <=> FailsAnalysis(filePaths[k])
        /\ phase = "returned" => Len(results.files) = Len(filePaths)

\* in the second wave of a batch of more than K paths the second analysis
\* has settled before the first
C29_Witness ==
    /\ phase = "running"
    /\ chunkIdx = 2
    /\ Len(results.files) = maxConcurrency
    /\ Len(calls) >= 2
    /\ calls[2].pc = "settled"
    /\ calls[1].pc # "settled"

\* C30: for every text and every flag configuration the total of
\* calculateDetailed equals the value of calculate, and equals 1 plus the
\* sum of the values of the breakdown returned.
C30_DetailedAgrees ==
    Called("calculateDetailed") =>
        /\ ret.total = calculate(call.content, call.config)
        /\ ret.total = 1 + Sum([k \in 1..4 |->
                LET keys == << {"ifStatements", "elseIfStatements", "whileLoops", "forLoops",
                                "doWhileLoops", "switchStatements", "catchBlocks"},
                               {"caseStatements"}, {"logicalAnd", "logicalOr"},
                               {"ternaryOperators"} >>[k]
                IN  SumOver(keys \cap DOMAIN ret.breakdown, ret.breakdown)])

\* a text with a match in every category, scored with one flag turned off
C30_Witness ==
    /\ Called("calculateDetailed")
    /\ \A flag \in Flags : CategoryCount(call.content, flag) > 0
    /\ ElseIfOccurrences(call.content) # {}
    /\ DOMAIN ret.breakdown =
            {"ifStatements", "elseIfStatements", "whileLoops", "forLoops", "doWhileLoops",
             "switchStatements", "catchBlocks", "caseStatements", "ternaryOperators"}
    /\ ret.total > 3

====
